---------------------------- MODULE Spec2Model ----------------------------
(***************************************************************************)
(* A model of the CSS bundler (src/src/bundler.rs): phase 1 loads and      *)
(* parses the @import graph with parallel workers (Bundler::load_file),    *)
(* phase 2 inlines the parsed stylesheets depth first (Bundler::inline).   *)
(***************************************************************************)
EXTENDS Integers, Sequences, FiniteSets, TLC

(***************************************************************************)
(* Bounds of the model.                                                    *)
(***************************************************************************)
\* The largest number of leading rules (@import rules and @layer
\* statements) over all the files of one import graph.
MaxItems == 3

(***************************************************************************)
(* Values.                                                                 *)
(***************************************************************************)
Files == {"a", "b", "c"}
Entry == "a"

\* Option<T>: None is the empty sequence, Some(x) is <<x>>.
None == <<>>
Some(x) == <<x>>
IsNone(o) == o = <<>>
IsSome(o) == o # <<>>
Unwrap(o) == o[1]

\* RECURSIVE helpers on sequences.
Range(s) == {s[i] : i \in DOMAIN s}

RECURSIVE SeqConcat(_)
SeqConcat(ss) == IF ss = <<>> THEN <<>> ELSE Head(ss) \o SeqConcat(Tail(ss))

(***************************************************************************)
(* Media queries.  A query is a media type, possibly negated; a media list *)
(* is a sequence of queries, the empty list meaning "all".                 *)
(***************************************************************************)
MediaTypes == {"print", "screen", "speech"}
MQ(neg, ty) == [neg |-> neg, ty |-> ty]
QPrint == MQ(FALSE, "print")
QScreen == MQ(FALSE, "screen")
QNotPrint == MQ(TRUE, "print")
AllQ == MQ(FALSE, "all")
NotAll == MQ(TRUE, "all")

\* Whether query q matches a device of media type e.
QueryMatches(q, e) == (q.ty = "all" \/ q.ty = e) # q.neg

\* Whether media list m matches a device of type e.
MediaMatches(m, e) == m = <<>> \/ \E i \in DOMAIN m : QueryMatches(m[i], e)

\* MediaQuery::and: the conjunction of two queries, or "Err" where one
\* query cannot express it.
QueryAnd(a, b) ==
  IF a = b THEN a
  ELSE IF a = NotAll \/ b = NotAll THEN NotAll
  ELSE IF a = AllQ THEN b
  ELSE IF b = AllQ THEN a
  ELSE IF ~a.neg /\ ~b.neg THEN NotAll
  ELSE "Err"

QueryAndFails(a, b) ==
  /\ a # b
  /\ a # NotAll /\ b # NotAll
  /\ a # AllQ /\ b # AllQ
  /\ (a.neg \/ b.neg)

\* The sequence s without the repetitions of its elements.
RECURSIVE Dedup(_)
Dedup(s) ==
  IF s = <<>> THEN <<>>
  ELSE LET r == Dedup(SubSeq(s, 1, Len(s) - 1))
           x == s[Len(s)]
       IN IF x \in Range(r) THEN r ELSE Append(r, x)

\* MediaList::and fails when some pair of queries cannot be combined.
MediaAndFails(a, b) ==
  \E i \in DOMAIN a : \E j \in DOMAIN b : QueryAndFails(a[i], b[j])

\* MediaList::and: (a1 or a2 ...) and (b1 or b2 ...).
MediaAnd(a, b) ==
  IF a = <<>> THEN b
  ELSE IF b = <<>> THEN a
  ELSE Dedup(SeqConcat([i \in DOMAIN a |-> [j \in DOMAIN b |-> QueryAnd(a[i], b[j])]]))

\* MediaList::or: the queries of b that a lacks are appended to a.
MediaOr(a, b) == Dedup(a \o b)

(***************************************************************************)
(* @supports conditions: a declaration test, or a conjunction or a         *)
(* disjunction of conditions.                                              *)
(***************************************************************************)
Features == {"s1", "s2"}
Decl(n) == [op |-> "decl", name |-> n, args |-> <<>>]
SupportsAnd(a, b) == [op |-> "and", name |-> "", args |-> <<a, b>>]
SupportsOr(a, b) == [op |-> "or", name |-> "", args |-> <<a, b>>]

\* Whether condition c holds in a browser supporting the features fs.
RECURSIVE SupportsHolds(_, _)
SupportsHolds(c, fs) ==
  CASE c.op = "decl" -> c.name \in fs
    [] c.op = "and" -> \A i \in DOMAIN c.args : SupportsHolds(c.args[i], fs)
    [] c.op = "or" -> \E i \in DOMAIN c.args : SupportsHolds(c.args[i], fs)

\* An optional condition: None is unconditional.
OptSupportsHolds(o, fs) == IsNone(o) \/ SupportsHolds(Unwrap(o), fs)

(***************************************************************************)
(* Import rules and the condition under which a file is reached.           *)
(***************************************************************************)
\* A layer name is a sequence of identifiers (foo.bar is <<"foo","bar">>).
\* ImportRule.layer is Option<Option<LayerName>>: None, Some(None) for the
\* anonymous `layer`, Some(Some(name)) for `layer(name)`.
NoLayer == None
AnonLayer == Some(None)
Named(n) == Some(Some(n))
IsNamed(l) == IsSome(l) /\ IsSome(Unwrap(l))
LayerNameOf(l) == Unwrap(Unwrap(l))

Loc(si, line) == [source_index |-> si, line |-> line, column |-> 0]

ImportRule(url, layer, supports, media, loc) ==
  [url |-> url, layer |-> layer, supports |-> supports, media |-> media, loc |-> loc]

\* The environments a condition is evaluated in.
Envs == [ty : MediaTypes, fs : SUBSET Features]

\* Whether the media and supports conditions of import rule r hold in e.
RuleHolds(r, e) == MediaMatches(r.media, e.ty) /\ OptSupportsHolds(r.supports, e.fs)

Cond(media, supports, layer) == [media |-> media, supports |-> supports, layer |-> layer]
Plain == Cond(<<>>, None, NoLayer)

\* The conditions the @import rules of one import graph are drawn from.
MediaPalette == {Plain, Cond(<<QPrint>>, None, NoLayer), Cond(<<QScreen>>, None, NoLayer),
                 Cond(<<QNotPrint>>, None, NoLayer)}
SupportsPalette == {Plain, Cond(<<>>, Some(Decl("s1")), NoLayer),
                    Cond(<<>>, Some(Decl("s2")), NoLayer)}
LayerPalette == {Plain, Cond(<<>>, None, AnonLayer), Cond(<<>>, None, Named(<<"foo">>)),
                 Cond(<<>>, None, Named(<<"bar">>))}
MixedPalette == {Plain, Cond(<<QPrint>>, None, NoLayer), Cond(<<>>, Some(Decl("s1")), NoLayer),
                 Cond(<<QPrint>>, Some(Decl("s1")), Named(<<"foo">>))}
Palettes == {MediaPalette, SupportsPalette, LayerPalette, MixedPalette}

(***************************************************************************)
(* The input: the files the source provider serves.  Every file holds its  *)
(* leading rules (@import rules and @layer statements, the only rules that *)
(* may precede an @import) followed by one style rule of its own; in the   *)
(* inputs of MisplacedSpec one file has an @import rule after its style    *)
(* rule.  The rules of all files are kept in one sequence, those of one    *)
(* file in source order.                                                   *)
(***************************************************************************)
ImportItem(src, url, c) ==
  [src |-> src, type |-> "Import", url |-> url, media |-> c.media,
   supports |-> c.supports, layer |-> c.layer, names |-> <<>>]

\* An @import rule that follows the style rule of its file.
LateImportItem(src, url) ==
  [src |-> src, type |-> "LateImport", url |-> url, media |-> <<>>,
   supports |-> None, layer |-> NoLayer, names |-> <<>>]

LayerItem(src) ==
  [src |-> src, type |-> "LayerStatement", url |-> "", media |-> <<>>,
   supports |-> None, layer |-> NoLayer, names |-> << <<"qux">> >>]

Rank(f) == CASE f = "a" -> 1 [] f = "b" -> 2 [] f = "c" -> 3

\* The files the @import rules of s name.
Targets(s) == {s[i].url : i \in {j \in DOMAIN s : s[j].type = "Import"}}

\* The rules of a file follow those of the files before it, and only a file
\* that is the entry or is imported has rules.
SrcOptions(s) ==
  {f \in {Entry} \cup Targets(s) : s = <<>> \/ Rank(f) >= Rank(s[Len(s)].src)}

\* File names are interchangeable: "c" is named only after "b" was.
UrlOptions(s) == {"a", "b"} \cup (IF "b" \in Targets(s) THEN {"c"} ELSE {})

\* Feature names and layer names are interchangeable too: "s2" is used only
\* after "s1" was, and "bar" only after "foo" was.
Used(s, c) == \E i \in DOMAIN s : s[i].type = "Import" /\ ImportItem(s[i].src, s[i].url, c) = s[i]

CondOptions(s, P) ==
  {c \in P :
     /\ c = Cond(<<>>, Some(Decl("s2")), NoLayer) => Used(s, Cond(<<>>, Some(Decl("s1")), NoLayer))
     /\ c = Cond(<<>>, None, Named(<<"bar">>)) => Used(s, Cond(<<>>, None, Named(<<"foo">>)))}

NextItems(s, P) ==
  {ImportItem(f, u, c) : f \in SrcOptions(s), u \in UrlOptions(s), c \in CondOptions(s, P)}
    \cup {LayerItem(f) : f \in SrcOptions(s)}

RECURSIVE ItemSeqs(_, _)
ItemSeqs(n, P) ==
  IF n = 0 THEN {<<>>}
  ELSE LET prev == ItemSeqs(n - 1, P)
       IN prev \cup UNION {{Append(s, it) : it \in NextItems(s, P)} :
                             s \in {t \in prev : Len(t) = n - 1}}

Inputs == UNION {ItemSeqs(MaxItems, P) : P \in Palettes}

\* A file is served and parses ("ok"), cannot be read ("unreadable") or
\* does not parse ("unparsable").  At most one file is not ok; it is a file
\* the bundler reaches and has no rules, and the @import rules of the other
\* files are then unconditional.
Unconditional(s) ==
  \A i \in DOMAIN s : s[i].type = "Import" /\ ImportItem(s[i].src, s[i].url, Plain) = s[i]

Statuses(s) ==
  {[f \in Files |-> "ok"]} \cup
  {[f \in Files |-> IF f = g THEN st ELSE "ok"] :
     g \in {h \in {Entry} \cup Targets(s) :
              Unconditional(s) /\ \A i \in DOMAIN s : s[i].src # h},
     st \in {"unreadable", "unparsable"}}

(***************************************************************************)
(* The state.                                                              *)
(***************************************************************************)
VARIABLES
  items,        \* the leading rules of the files (the input)
  status,       \* what the source provider and the parser do with each file
  pc,           \* the position of each load_file call: 0 is the entry's,
                \* i > 0 the one made for the @import rule items[i]
  arg,          \* the ImportRule each load_file call was given
  err,          \* the error each load_file call returned, if any
  loaded,       \* Bundler.loaded: path -> effective ImportRule
  stylesheets,  \* Bundler.stylesheets: path -> parsed rules
  sources,      \* Bundler.sources: the filename table
  phase,        \* "load", "inline", "done", "failed", "panicked"
  stack,        \* the frames of the recursive inline calls
  dest,         \* the rule list inline writes to
  result        \* what bundle returned

bundlerVars == <<items, status, pc, arg, err, loaded, stylesheets, sources, phase,
                 stack, dest, result>>

\* StyleSheet::parse and the loop of inline over the rules it returned.
VARIABLES
  code,         \* the top-level rules of the text StyleSheet::parse is given
  parser,       \* the position of the parser in them, the rules it has
                \* pushed, and what parse returned
  scan          \* the loop of Bundler::inline over the parsed rules

parserVars == <<code, parser, scan>>

\* A side handler (margin, padding, scroll-margin, scroll-padding, inset)
\* run over the declarations of one block.
VARIABLES
  side,         \* the family of the handler, whether the targets support its
                \* logical feature, and the declarations of the block
  handler,      \* the fields of the handler
  sideOut       \* the declaration list it writes to, the used_logical flag
                \* of the context, and how far the block has been handled

sideVars == <<side, handler, sideOut>>

\* Property::to_css of one property, and an iterator over its prefix mask.
VARIABLES
  printer,      \* the property (arm, prefix mask, value, important flag) and
                \* what has been written to dest
  iter          \* VendorPrefixIter: its bits and the flags it has yielded

printerVars == <<printer, iter>>

\* The @supports accumulator of a PropertyHandlerContext.
VARIABLES
  context,      \* the fields context, is_important and supports
  ctxLog        \* the calls made since the last get_supports_rules, and
                \* what the last get_supports_rules was called with and
                \* returned

contextVars == <<context, ctxLog>>

\* The parser of a block nested in a style rule, MediaRule::minify and
\* to_css, the two filename tables of phase 1, and an addition of times.
VARIABLES
  nest,         \* the items of the block of a nested at-rule, the position
                \* of the parser in them, and the lists it has filled
  minify,       \* a rule list, the rules minify has gone through, and what
                \* has been printed of the result
  smap,         \* the files of a bundle, the position of each worker, the
                \* filename table and the sources of the source map
  time          \* two Time values and their sum

nestVars == <<nest>>
minifyVars == <<minify>>
smapVars == <<smap>>
timeVars == <<time>>

vars == <<bundlerVars, parserVars, sideVars, printerVars, contextVars,
         nestVars, minifyVars, smapVars, timeVars>>

\* What a step of one component leaves alone.
nonBundlerVars ==
  <<parserVars, sideVars, printerVars, contextVars,
    nestVars, minifyVars, smapVars, timeVars>>
nonParserVars ==
  <<bundlerVars, sideVars, printerVars, contextVars,
    nestVars, minifyVars, smapVars, timeVars>>
nonSideVars ==
  <<bundlerVars, parserVars, printerVars, contextVars,
    nestVars, minifyVars, smapVars, timeVars>>
nonPrinterVars ==
  <<bundlerVars, parserVars, sideVars, contextVars,
    nestVars, minifyVars, smapVars, timeVars>>
nonContextVars ==
  <<bundlerVars, parserVars, sideVars, printerVars,
    nestVars, minifyVars, smapVars, timeVars>>

\* No file is being parsed on its own.
ParserIdle ==
  /\ code = <<>>
  /\ parser = [pos |-> 0, rules |-> <<>>, result |-> "Idle"]
  /\ scan = [rules |-> <<>>, idx |-> 0, done |-> FALSE]

\* No declaration block is being handled.
SideIdle ==
  /\ side = [family |-> "none", supported |-> TRUE, props |-> <<>>]
  /\ handler = <<>>
  /\ sideOut = [dest |-> <<>>, used_logical |-> FALSE, pos |-> 0, done |-> TRUE]

\* No property is being printed.
PrinterIdle ==
  /\ printer = [arm |-> "none", mask |-> 0, value |-> 0, important |-> FALSE,
                dest |-> <<>>, first |-> TRUE, step |-> 0, done |-> TRUE]
  /\ iter = [bits |-> 0, yielded |-> <<>>, done |-> TRUE]

\* No context is in use.
ContextIdle ==
  /\ context = [context |-> "None", is_important |-> FALSE, supports |-> <<>>]
  /\ ctxLog = [calls |-> 0, rule |-> 0, registered |-> <<>>, last |-> <<>>]

\* No block of a nested at-rule is being parsed.
NestIdle == nest = [stage |-> "idle"]

\* No rule list is being minified.
MinifyIdle == minify = [stage |-> "idle"]

\* No filename table is being filled.
SmapIdle == smap = [stage |-> "idle"]

\* No times are being added.
TimeIdle == time = [stage |-> "idle"]

LaterIdle == NestIdle /\ MinifyIdle /\ SmapIdle /\ TimeIdle

\* None of the other components is in use.
OthersIdle == PrinterIdle /\ ContextIdle /\ LaterIdle

nonNestVars ==
  <<bundlerVars, parserVars, sideVars, printerVars, contextVars,
    minifyVars, smapVars, timeVars>>
nonMinifyVars ==
  <<bundlerVars, parserVars, sideVars, printerVars, contextVars,
    nestVars, smapVars, timeVars>>
nonSmapVars ==
  <<bundlerVars, parserVars, sideVars, printerVars, contextVars,
    nestVars, minifyVars, timeVars>>
nonTimeVars ==
  <<bundlerVars, parserVars, sideVars, printerVars, contextVars,
    nestVars, minifyVars, smapVars>>

Tasks == 0 .. Len(items)

\* The path a load_file call is made for.
Target(i) == IF i = 0 THEN Entry ELSE items[i].url

(***************************************************************************)
(* Parsing a file.                                                         *)
(***************************************************************************)
\* The leading rules of file f, as indices into items, in source order.
Lead(f) ==
  SelectSeq([i \in 1 .. Len(items) |-> i],
            LAMBDA i : items[i].src = f /\ items[i].type # "LateImport")

\* The @import rules of file f that follow its style rule.
Trail(f) ==
  SelectSeq([i \in 1 .. Len(items) |-> i],
            LAMBDA i : items[i].src = f /\ items[i].type = "LateImport")

\* The line of items[i] in its file: the style rule has a line of its own
\* after the leading rules.
LineOf(i) ==
  Cardinality({j \in 1 .. i : items[j].src = items[i].src})
    + (IF items[i].type = "LateImport" THEN 1 ELSE 0)

\* The position of file f in the filename table, from 0.
SourceIndex(f) == (CHOOSE k \in DOMAIN sources : sources[k] = f) - 1

StyleRule(f, loc) == [type |-> "Style", file |-> f, loc |-> loc]
Ignored == [type |-> "Ignored"]

\* The rule the parser makes of items[i], read from the file with source
\* index si.
ParsedRule(i, si) ==
  IF items[i].type \in {"Import", "LateImport"}
  THEN [type |-> "Import", url |-> items[i].url, media |-> items[i].media,
        supports |-> items[i].supports, layer |-> items[i].layer,
        loc |-> Loc(si, LineOf(i))]
  ELSE [type |-> "LayerStatement", names |-> items[i].names, loc |-> Loc(si, LineOf(i))]

\* StyleSheet::parse: the rules of file f in source order.
Parse(f, si) ==
  [k \in DOMAIN Lead(f) |-> ParsedRule(Lead(f)[k], si)]
    \o <<StyleRule(f, Loc(si, Len(Lead(f)) + 1))>>
    \o [k \in DOMAIN Trail(f) |-> ParsedRule(Trail(f)[k], si)]

\* The parent layer name is prepended to the names of an @layer statement.
PrefixLayerStatement(r, layer) ==
  IF r.type = "LayerStatement" /\ IsNamed(layer)
  THEN [r EXCEPT !.names = [n \in DOMAIN r.names |-> LayerNameOf(layer) \o r.names[n]]]
  ELSE r

\* The stylesheet of file f once load_file, called with `rule`, has gone
\* through its rules.
LoadedStyleSheet(f, rule) ==
  LET rules == Parse(f, SourceIndex(f))
  IN [k \in DOMAIN rules |-> PrefixLayerStatement(rules[k], rule.layer)]

(***************************************************************************)
(* Phase 1: load_file.                                                     *)
(***************************************************************************)
\* The ImportRule bundle gives load_file for the entry.
EntryRule == ImportRule("", NoLayer, None, <<>>, Loc(0, 1))

\* file.with_file_name(url): every file is a sibling of the entry.
PathOf(file, url) == url

\* A check that sees the clash only when the media list is on the new arrival.
ImportConditionClashOneWay(entry, rule) ==
  rule.media # <<>> /\ IsSome(entry.supports)

\* An @import with media and an @import with supports cannot be OR-ed.
ImportConditionClash(entry, rule) ==
  \/ rule.media # <<>> /\ IsSome(entry.supports)
  \/ entry.media # <<>> /\ IsSome(rule.supports)

\* A merge that does not let the empty media list of the new arrival absorb.
MergedMediaNoClear(entry, rule) ==
  IF entry.media # <<>> /\ rule.media # <<>> THEN MediaOr(entry.media, rule.media)
  ELSE entry.media

MergedMedia(entry, rule) ==
  IF rule.media = <<>> THEN <<>>
  ELSE IF entry.media # <<>> THEN MediaOr(entry.media, rule.media)
  ELSE entry.media

MergedSupports(entry, rule) ==
  IF IsSome(rule.supports)
  THEN IF IsSome(entry.supports)
       THEN Some(SupportsOr(Unwrap(entry.supports), Unwrap(rule.supports)))
       ELSE entry.supports
  ELSE None

LayerClash(entry, rule) ==
  /\ IsSome(rule.layer)
  /\ IsSome(entry.layer)
  /\ \/ Unwrap(rule.layer) # Unwrap(entry.layer)
     \/ IsNone(Unwrap(rule.layer)) /\ IsNone(Unwrap(entry.layer))

MergedLayer(entry, rule) ==
  IF IsSome(rule.layer) /\ IsNone(entry.layer) THEN rule.layer ELSE entry.layer

\* The Occupied arm of load_file up to the layer check: media and supports
\* are OR-ed into the stored entry.
MergedConditions(entry, rule) ==
  [entry EXCEPT !.media = MergedMedia(entry, rule),
                !.supports = MergedSupports(entry, rule)]

\* The Occupied arm of load_file when it returns Ok.
MergedEntry(entry, rule) ==
  [MergedConditions(entry, rule) EXCEPT !.layer = MergedLayer(entry, rule)]

\* An anonymous layer cannot be combined with another layer.
ChildLayerClash(rule, import) ==
  \/ rule.layer = AnonLayer /\ IsSome(import.layer)
  \/ import.layer = AnonLayer /\ IsSome(rule.layer)

ChildLayer(rule, import) ==
  IF IsNamed(rule.layer)
  THEN IF IsNamed(import.layer)
       THEN Named(LayerNameOf(rule.layer) \o LayerNameOf(import.layer))
       ELSE Named(LayerNameOf(rule.layer))
  ELSE import.layer

\* A combination that keeps the parent's condition alone.
combine_supports_parent(a, b) == IF IsSome(a) THEN a ELSE b

combine_supports(a, b) ==
  IF IsSome(a)
  THEN IF IsSome(b) THEN Some(SupportsAnd(Unwrap(a), Unwrap(b))) ELSE a
  ELSE b

\* The ImportRule load_file is called with for the @import rule `import` of
\* a file that was loaded with `rule`.
ChildRule(rule, import) ==
  ImportRule("", ChildLayer(rule, import), combine_supports(rule.supports, import.supports),
             MediaAnd(rule.media, import.media), import.loc)

\* A bundler that takes every arrival for the first one.
OccupiedNever(file) == FALSE

\* A bundler that takes an arrival at the entry for the first one.
OccupiedImportsOnly(file) == file # Entry /\ IsSome(loaded[file])

\* loaded.entry(file) is Entry::Occupied: the path was reached before.
Occupied(file) == IsSome(loaded[file])

\* The load_file call that read and parsed file f, if any.
Owner(f) == CHOOSE j \in Tasks : Target(j) = f /\ pc[j] \in {"read", "wait", "done"}

\* The load_file calls made for the @import rules of file f.
Children(f) ==
  {i \in 1 .. Len(items) : items[i].src = f /\ items[i].type \in {"Import", "LateImport"}}

\* Error { kind, loc: Some(ErrorLocation::from(loc, sources[loc.source_index])) }
ErrorValue(kind, loc) ==
  [kind |-> kind,
   loc |-> Some([filename |-> sources[loc.source_index + 1], line |-> loc.line,
                 column |-> loc.column])]

\* Call i returns the error `kind` located at loc; indexing the filename
\* table out of its bounds panics.
TaskFails(i, kind, loc) ==
  IF loc.source_index < Len(sources)
  THEN /\ pc' = [pc EXCEPT ![i] = "err"]
       /\ err' = [err EXCEPT ![i] = Some(ErrorValue(kind, loc))]
       /\ phase' = phase
  ELSE /\ pc' = [pc EXCEPT ![i] = "panic"]
       /\ err' = err
       /\ phase' = "panicked"

\* The rule a worker holds when it runs the closure for items[i].
ParentRule(i) == arg[Owner(items[i].src)][1]
ImportOf(i) == ParsedRule(i, SourceIndex(items[i].src))

\* A worker runs load_file up to the end of its match on loaded.entry(file):
\* for the entry, called by bundle; for an @import rule, called by the
\* closure of the parent's parallel loop, which first ANDs the conditions.
CallLoadFile(i) ==
  /\ phase = "load"
  /\ pc[i] = "ready"
  /\ UNCHANGED <<nonBundlerVars, items, status, stylesheets, sources, stack, dest, result>>
  /\ IF i > 0 /\ MediaAndFails(ParentRule(i).media, ImportOf(i).media)
     THEN /\ TaskFails(i, "UnsupportedMediaBooleanLogic", ImportOf(i).loc)
          /\ UNCHANGED <<arg, loaded>>
     ELSE IF i > 0 /\ ChildLayerClash(ParentRule(i), ImportOf(i))
     THEN /\ TaskFails(i, "UnsupportedLayerCombination", ImportOf(i).loc)
          /\ UNCHANGED <<arg, loaded>>
     ELSE LET rule == IF i = 0 THEN EntryRule ELSE ChildRule(ParentRule(i), ImportOf(i))
              file == IF i = 0 THEN Entry ELSE PathOf(items[i].src, items[i].url)
          IN /\ arg' = [arg EXCEPT ![i] = Some(rule)]
             /\ IF Occupied(file)
                THEN LET entry == Unwrap(loaded[file])
                     IN IF ImportConditionClash(entry, rule)
                        THEN /\ TaskFails(i, "UnsupportedImportCondition", rule.loc)
                             /\ UNCHANGED loaded
                        ELSE IF LayerClash(entry, rule)
                        THEN /\ TaskFails(i, "UnsupportedLayerCombination", rule.loc)
                             /\ loaded' = [loaded EXCEPT ![file] = Some(MergedConditions(entry, rule))]
                        ELSE /\ loaded' = [loaded EXCEPT ![file] = Some(MergedEntry(entry, rule))]
                             /\ pc' = [pc EXCEPT ![i] = "merged"]
                             /\ UNCHANGED <<err, phase>>
                ELSE /\ loaded' = [loaded EXCEPT ![file] = Some(rule)]
                     /\ pc' = [pc EXCEPT ![i] = "read"]
                     /\ UNCHANGED <<err, phase>>

\* The owner of a path reads the file, enters it in the filename table and
\* parses it; the closures of its @import rules can then run.
ReadAndParse(i) ==
  /\ phase = "load"
  /\ pc[i] = "read"
  /\ UNCHANGED <<nonBundlerVars, items, status, arg, loaded, stylesheets, stack, dest, result>>
  /\ IF status[Target(i)] = "unreadable"
     THEN /\ TaskFails(i, "IOError", arg[i][1].loc)
          /\ UNCHANGED sources
     ELSE /\ sources' = Append(sources, Target(i))
          /\ phase' = phase
          /\ IF status[Target(i)] = "unparsable"
             THEN /\ pc' = [pc EXCEPT ![i] = "err"]
                  /\ err' = [err EXCEPT ![i] =
                       Some([kind |-> "ParserError",
                             loc |-> Some([filename |-> Target(i), line |-> 1, column |-> 0])])]
             ELSE /\ pc' = [j \in Tasks |->
                             IF j = i THEN "wait"
                             ELSE IF j \in Children(Target(i)) THEN "ready"
                             ELSE pc[j]]
                  /\ err' = err

\* Every closure of the parallel loop returned Ok: the stylesheet is put
\* into the stylesheets map and load_file returns Ok.
FinishLoad(i) ==
  /\ phase = "load"
  /\ pc[i] = "wait"
  /\ \A j \in Children(Target(i)) : pc[j] \in {"done", "merged"}
  /\ stylesheets' = [stylesheets EXCEPT ![Target(i)] = Some(LoadedStyleSheet(Target(i), arg[i][1]))]
  /\ pc' = [pc EXCEPT ![i] = "done"]
  /\ UNCHANGED <<nonBundlerVars, items, status, arg, err, loaded, sources, phase, stack, dest, result>>

\* bundle returns the error of a load_file call that failed.
BundleFail ==
  /\ phase = "load"
  /\ \E i \in Tasks :
       /\ IsSome(err[i])
       /\ result' = [kind |-> "Err", error |-> Unwrap(err[i])]
  /\ phase' = "failed"
  /\ UNCHANGED <<nonBundlerVars, items, status, pc, arg, err, loaded, stylesheets, sources, stack, dest>>

(***************************************************************************)
(* Phase 2: inline.  The recursion is kept as a stack of frames, one for   *)
(* each call that found its stylesheet: the file, its rule vector and the  *)
(* position of the loop over the leading rules.                            *)
(***************************************************************************)
Frame(file, rules) == [file |-> file, rules |-> rules, idx |-> 1]
Top == stack[Len(stack)]
AtLeadingRule(fr) ==
  fr.idx <= Len(fr.rules) /\ fr.rules[fr.idx].type \in {"Import", "LayerStatement"}

\* The loop replaces the rule it is at by Ignored and moves on.
Consumed(fr) == [fr EXCEPT !.rules[fr.idx] = Ignored, !.idx = fr.idx + 1]

MediaRule(query, rules, loc) == [type |-> "Media", query |-> query, rules |-> rules, loc |-> loc]
SupportsRule(condition, rules, loc) ==
  [type |-> "Supports", condition |-> condition, rules |-> rules, loc |-> loc]
LayerBlockRule(name, rules, loc) ==
  [type |-> "LayerBlock", name |-> name, rules |-> rules, loc |-> loc]

WrapMedia(rules, l) ==
  IF l.media # <<>> THEN <<MediaRule(l.media, rules, l.loc)>> ELSE rules
WrapSupports(rules, l) ==
  IF IsSome(l.supports) THEN <<SupportsRule(Unwrap(l.supports), rules, l.loc)>> ELSE rules
WrapLayer(rules, l) ==
  IF IsSome(l.layer) THEN <<LayerBlockRule(Unwrap(l.layer), rules, l.loc)>> ELSE rules

\* The wrappers applied in the opposite order: @media outermost.
WrapMediaOutermost(rules, l) == WrapMedia(WrapSupports(WrapLayer(rules, l), l), l)

\* The rules of a file wrapped in the rules of its effective condition.
Wrap(rules, l) == WrapLayer(WrapSupports(WrapMedia(rules, l), l), l)

\* bundle starts phase 2 once load_file returned Ok for the entry.
BeginInline ==
  /\ phase = "load"
  /\ pc[0] = "done"
  /\ phase' = "inline"
  /\ IF IsSome(stylesheets[Entry])
     THEN /\ stack' = <<Frame(Entry, Unwrap(stylesheets[Entry]))>>
          /\ stylesheets' = [stylesheets EXCEPT ![Entry] = None]
     ELSE UNCHANGED <<stack, stylesheets>>
  /\ UNCHANGED <<nonBundlerVars, items, status, pc, arg, err, loaded, sources, dest, result>>

\* The loop is at an @import rule: inline is called for its path, and
\* returns at once when the stylesheet of the path is no longer in the map.
InlineImport ==
  /\ phase = "inline"
  /\ stack # <<>>
  /\ AtLeadingRule(Top)
  /\ Top.rules[Top.idx].type = "Import"
  /\ LET path == PathOf(Top.file, Top.rules[Top.idx].url)
     IN IF IsSome(stylesheets[path])
        THEN /\ stack' = Append(stack, Frame(path, Unwrap(stylesheets[path])))
             /\ stylesheets' = [stylesheets EXCEPT ![path] = None]
        ELSE /\ stack' = [stack EXCEPT ![Len(stack)] = Consumed(Top)]
             /\ UNCHANGED stylesheets
  /\ UNCHANGED <<nonBundlerVars, items, status, pc, arg, err, loaded, sources, phase, dest, result>>

\* A loop that steps over an @layer statement and leaves it among the rules
\* of its file.
InlineLayerStatementKept ==
  /\ phase = "inline"
  /\ stack # <<>>
  /\ AtLeadingRule(Top)
  /\ Top.rules[Top.idx].type = "LayerStatement"
  /\ stack' = [stack EXCEPT ![Len(stack)] = [Top EXCEPT !.idx = Top.idx + 1]]
  /\ UNCHANGED <<nonBundlerVars, items, status, pc, arg, err, loaded, stylesheets, sources, phase, dest, result>>

\* The loop is at an @layer statement: it is moved to the output.
InlineLayerStatement ==
  /\ phase = "inline"
  /\ stack # <<>>
  /\ AtLeadingRule(Top)
  /\ Top.rules[Top.idx].type = "LayerStatement"
  /\ dest' = Append(dest, Top.rules[Top.idx])
  /\ stack' = [stack EXCEPT ![Len(stack)] = Consumed(Top)]
  /\ UNCHANGED <<nonBundlerVars, items, status, pc, arg, err, loaded, stylesheets, sources, phase, result>>

\* The loop is over: the rules are wrapped and appended to the output, the
\* call returns, and the caller replaces its @import rule by Ignored.
InlineFinish ==
  /\ phase = "inline"
  /\ stack # <<>>
  /\ ~AtLeadingRule(Top)
  /\ IF IsNone(loaded[Top.file])
     THEN /\ phase' = "panicked"
          /\ UNCHANGED <<loaded, dest, stack>>
     ELSE /\ phase' = phase
          /\ loaded' = [loaded EXCEPT ![Top.file] = None]
          /\ dest' = dest \o Wrap(Top.rules, Unwrap(loaded[Top.file]))
          /\ stack' = IF Len(stack) = 1 THEN <<>>
                      ELSE [SubSeq(stack, 1, Len(stack) - 1) EXCEPT
                              ![Len(stack) - 1] = Consumed(stack[Len(stack) - 1])]
  /\ UNCHANGED <<nonBundlerVars, items, status, pc, arg, err, stylesheets, sources, result>>

\* bundle returns the stylesheet, taking the filename table with it.
BundleReturn ==
  /\ phase = "inline"
  /\ stack = <<>>
  /\ phase' = "done"
  /\ result' = [kind |-> "Ok", sources |-> sources, rules |-> dest]
  /\ sources' = <<>>
  /\ UNCHANGED <<nonBundlerVars, items, status, pc, arg, err, loaded, stylesheets, stack, dest>>

(***************************************************************************)
(* The specification.                                                      *)
(***************************************************************************)
\* A new Bundler, about to bundle the entry of one of the inputs of S.
InitWith(S) ==
  /\ items \in S
  /\ status \in Statuses(items)
  /\ pc = [i \in 0 .. Len(items) |-> IF i = 0 THEN "ready" ELSE "none"]
  /\ arg = [i \in 0 .. Len(items) |-> None]
  /\ err = [i \in 0 .. Len(items) |-> None]
  /\ loaded = [f \in Files |-> None]
  /\ stylesheets = [f \in Files |-> None]
  /\ sources = <<>>
  /\ phase = "load"
  /\ stack = <<>>
  /\ dest = <<>>
  /\ result = [kind |-> "None"]
  /\ ParserIdle
  /\ SideIdle
  /\ OthersIdle

Init == InitWith(Inputs)

Next ==
  \/ \E i \in Tasks : CallLoadFile(i)
  \/ \E i \in Tasks : ReadAndParse(i)
  \/ \E i \in Tasks : FinishLoad(i)
  \/ BundleFail
  \/ BeginInline
  \/ InlineImport
  \/ InlineLayerStatement
  \/ InlineFinish
  \/ BundleReturn

Spec == Init /\ [][Next]_vars

\* Every worker that can take a step eventually does, and so does bundle.
FairSpec == Spec /\ WF_vars(Next)

(***************************************************************************)
(* The import graph of the input, and what the output holds.               *)
(***************************************************************************)
Imports == {i \in DOMAIN items : items[i].type = "Import"}

\* The files reached from the files of S by following @import rules.
RECURSIVE ReachFrom(_)
ReachFrom(S) ==
  LET T == S \cup {items[i].url : i \in {j \in Imports : items[j].src \in S}}
  IN IF T = S THEN S ELSE ReachFrom(T)

Reach == ReachFrom({Entry})

\* The files file f imports.
Succ(f) == {items[i].url : i \in {j \in Imports : items[j].src = f}}

HasCycle == \E f \in Reach : f \in ReachFrom(Succ(f))

AllOk == \A f \in Files : status[f] = "ok"

Terminated == phase \in {"done", "failed", "panicked"}

IsWrapper(r) == r.type \in {"Media", "Supports", "LayerBlock"}

\* The files whose style rules a rule list holds, in document order, at any
\* depth.
RECURSIVE StyleFiles(_)
StyleFiles(rules) ==
  SeqConcat([k \in DOMAIN rules |->
    IF rules[k].type = "Style" THEN <<rules[k].file>>
    ELSE IF IsWrapper(rules[k]) THEN StyleFiles(rules[k].rules)
    ELSE <<>>])

Count(x, s) == Cardinality({k \in DOMAIN s : s[k] = x})

\* Every file the entry reaches has its rules in the returned rule list
\* exactly once.
EachReachableOnce == \A f \in Reach : Count(f, StyleFiles(result.rules)) = 1

\* No path was entered twice in the filename table: no file was read and
\* parsed twice.
ParsedOnce ==
  /\ \A f \in Files : Count(f, sources) <= 1
  /\ result.kind = "Ok" => \A f \in Files : Count(f, result.sources) <= 1

\* C1: for an import graph with a cycle, bundle terminates, no path is read
\* and parsed more than once, and when bundle returns a stylesheet the
\* rules of every reachable file are in it exactly once.
C1_CyclicTerminates ==
  /\ <>Terminated
  /\ [](ParsedOnce /\ (phase = "done" => EachReachableOnce))

\* A bundle of three files, the entry on a cycle, has returned.
C1_Witness ==
  /\ phase = "done"
  /\ Reach = Files
  /\ Entry \in ReachFrom(Succ(Entry))

\* The import graphs with a cycle whose conditions are those of the mixed
\* palette.
MixedInputs == ItemSeqs(MaxItems, MixedPalette)

CyclicInit == Init /\ HasCycle /\ items \in MixedInputs

\* Bundling a cyclic import graph with fair scheduling: a worker that can
\* take a step eventually takes one, and so does the serial phase 2.
CyclicSpec == CyclicInit /\ [][Next]_vars /\ WF_vars(Next)

(***************************************************************************)
(* C2: the condition a file is emitted under.                              *)
(***************************************************************************)
\* Whether the condition of the @import rule items[i] holds in e.
ItemHolds(i, e) ==
  MediaMatches(items[i].media, e.ty) /\ OptSupportsHolds(items[i].supports, e.fs)

\* Whether some import chain from the entry to file f has all its
\* conditions hold in e (for a graph without cycles).
RECURSIVE ChainHolds(_, _)
ChainHolds(f, e) ==
  \/ f = Entry
  \/ \E i \in Imports : items[i].url = f /\ ItemHolds(i, e) /\ ChainHolds(items[i].src, e)

\* Whether the style rule of file f, somewhere in rules, applies in e: the
\* conditions of all the rules that wrap it hold.
RECURSIVE Applies(_, _, _)
Applies(rules, f, e) ==
  \E k \in DOMAIN rules :
    CASE rules[k].type = "Style" -> rules[k].file = f
      [] rules[k].type = "Media" ->
           MediaMatches(rules[k].query, e.ty) /\ Applies(rules[k].rules, f, e)
      [] rules[k].type = "Supports" ->
           SupportsHolds(rules[k].condition, e.fs) /\ Applies(rules[k].rules, f, e)
      [] rules[k].type = "LayerBlock" -> Applies(rules[k].rules, f, e)
      [] OTHER -> FALSE

\* C2: the bundle of an import graph without cycles, when it succeeds,
\* holds the rules of every reachable file exactly once, under the OR over
\* the import chains to the file of the AND of the conditions of the chain.
C2_ArrivalConditions ==
  (phase = "done" /\ ~HasCycle) =>
    /\ EachReachableOnce
    /\ \A f \in Reach : \A e \in Envs : Applies(result.rules, f, e) <=> ChainHolds(f, e)

(***************************************************************************)
(* C3, C4, C5: a path that is reached again.                               *)
(***************************************************************************)
\* Call i has gone through the match on loaded.entry(file) in this step.
Arrives(i) == pc[i] = "ready" /\ pc'[i] # "ready" /\ IsSome(arg'[i])

\* Call i returned the error `kind` in this step.
FailsWith(i, kind) == pc'[i] = "err" /\ IsSome(err'[i]) /\ err'[i][1].kind = kind

\* C3: when a path is reached again and no error is raised, the stored
\* condition becomes the OR of the stored condition and the condition of the
\* new arrival; an empty media list and an absent supports condition absorb.
C3_MergeIsOr ==
  [][\A i \in Tasks :
       (pc[i] = "ready" /\ pc'[i] = "merged") =>
         LET old == loaded[Target(i)][1]
             new == loaded'[Target(i)][1]
             rule == arg'[i][1]
         IN /\ \A ty \in MediaTypes :
                 MediaMatches(new.media, ty) <=>
                   (MediaMatches(old.media, ty) \/ MediaMatches(rule.media, ty))
            /\ \A fs \in SUBSET Features :
                 OptSupportsHolds(new.supports, fs) <=>
                   (OptSupportsHolds(old.supports, fs) \/ OptSupportsHolds(rule.supports, fs))
            /\ (old.media = <<>> \/ rule.media = <<>>) => new.media = <<>>
            /\ (IsNone(old.supports) \/ IsNone(rule.supports)) => IsNone(new.supports)
    ]_vars

\* Two arrivals with different media lists were merged into a list of two
\* queries, or two with different supports conditions into a disjunction.
C3_Witness ==
  \E i \in Tasks :
    /\ pc[i] = "merged"
    /\ IsSome(loaded[Target(i)])
    /\ \/ Len(loaded[Target(i)][1].media) = 2
       \/ /\ IsSome(loaded[Target(i)][1].supports)
          /\ loaded[Target(i)][1].supports[1].op = "or"

\* The same named layer on both arrivals, or no layer on both.
LayersMatch(a, b) == a = b /\ a # AnonLayer

\* C4: when a path is reached again (and its media and supports conditions
\* can be combined), the arrival merges if the layers of the stored
\* condition and of the arrival match exactly, and fails with
\* UnsupportedLayerCombination in every other case.
C4_LayersMustMatch ==
  [][\A i \in Tasks :
       (Arrives(i) /\ IsSome(loaded[Target(i)])
          /\ ~FailsWith(i, "UnsupportedImportCondition")) =>
         IF LayersMatch(loaded[Target(i)][1].layer, arg'[i][1].layer)
         THEN pc'[i] = "merged"
         ELSE FailsWith(i, "UnsupportedLayerCombination")
    ]_vars

\* C5: when a path is reached again, the arrival fails with
\* UnsupportedImportCondition, the stored condition untouched, if one of the
\* two has a media list and the other a supports condition, and in no
\* other case.
C5_MediaWithSupports ==
  [][\A i \in Tasks :
       (Arrives(i) /\ IsSome(loaded[Target(i)])) =>
         LET old == loaded[Target(i)][1]
             rule == arg'[i][1]
         IN IF \/ rule.media # <<>> /\ IsSome(old.supports)
               \/ old.media # <<>> /\ IsSome(rule.supports)
            THEN FailsWith(i, "UnsupportedImportCondition") /\ loaded' = loaded
            ELSE ~FailsWith(i, "UnsupportedImportCondition")
    ]_vars

\* An arrival failed with UnsupportedImportCondition.
C5_Witness ==
  \E i \in Tasks :
    pc[i] = "err" /\ IsSome(err[i]) /\ err[i][1].kind = "UnsupportedImportCondition"

(***************************************************************************)
(* C6: descending into a freshly parsed file.                              *)
(***************************************************************************)
\* C6: the condition load_file is called with for an @import rule of a
\* freshly parsed file is the AND of the condition the file was loaded with
\* and the condition of the @import rule; a named layer under a named layer
\* has the concatenated name; the call is not made, and
\* UnsupportedMediaBooleanLogic is returned, exactly when the media lists
\* cannot be AND-ed; and a path reached for the first time is stored with
\* that condition.
C6_ChildIsAnd ==
  [][\A i \in Imports :
       (pc[i] = "ready" /\ pc'[i] # "ready") =>
         LET parent == ParentRule(i)
         IN /\ FailsWith(i, "UnsupportedMediaBooleanLogic")
                 <=> MediaAndFails(parent.media, items[i].media)
            /\ IsSome(arg'[i]) =>
                 /\ \A e \in Envs :
                      RuleHolds(arg'[i][1], e) <=> (RuleHolds(parent, e) /\ ItemHolds(i, e))
                 /\ (IsNamed(parent.layer) /\ IsNamed(items[i].layer)) =>
                      arg'[i][1].layer =
                        Named(LayerNameOf(parent.layer) \o LayerNameOf(items[i].layer))
                 /\ IsNone(loaded[Target(i)]) => loaded'[Target(i)] = arg'[i]
    ]_vars

\* A file loaded under a supports condition imported a file under another
\* supports condition, or one loaded in a named layer imported into one.
C6_Witness ==
  \E i \in Imports :
    /\ IsSome(arg[i])
    /\ IsSome(items[i].supports)
    /\ IsSome(arg[i][1].supports)
    /\ arg[i][1].supports[1].op = "and"

(***************************************************************************)
(* C7: the order of the output.                                            *)
(***************************************************************************)
Token(kind, file, line) == [kind |-> kind, file |-> file, line |-> line]

\* The style rules and @layer statements of a rule list in document order,
\* at any depth: a style rule by its file, an @layer statement by its file
\* and line.
RECURSIVE Tokens(_, _)
Tokens(rules, names) ==
  SeqConcat([k \in DOMAIN rules |->
    IF rules[k].type = "Style" THEN <<Token("style", rules[k].file, 0)>>
    ELSE IF rules[k].type = "LayerStatement"
    THEN <<Token("layer", names[rules[k].loc.source_index + 1], rules[k].loc.line)>>
    ELSE IF IsWrapper(rules[k]) THEN Tokens(rules[k].rules, names)
    ELSE <<>>])

\* The depth-first walk of the import graph from file f, `seen` the files
\* the walk has entered: what it emits, and the files it has entered then.
RECURSIVE DfsFile(_, _)
RECURSIVE DfsRules(_, _, _, _)
DfsFile(f, seen) ==
  IF f \in seen THEN [out |-> <<>>, seen |-> seen]
  ELSE LET r == DfsRules(f, Lead(f), 1, seen \cup {f})
       IN [out |-> r.out \o <<Token("style", f, 0)>>, seen |-> r.seen]
DfsRules(f, ixs, k, seen) ==
  IF k > Len(ixs) THEN [out |-> <<>>, seen |-> seen]
  ELSE IF items[ixs[k]].type = "Import"
  THEN LET a == DfsFile(items[ixs[k]].url, seen)
           b == DfsRules(f, ixs, k + 1, a.seen)
       IN [out |-> a.out \o b.out, seen |-> b.seen]
  ELSE LET b == DfsRules(f, ixs, k + 1, seen)
       IN [out |-> <<Token("layer", f, LineOf(ixs[k]))>> \o b.out, seen |-> b.seen]

\* C7: the rules of the returned stylesheet are in depth-first order: the
\* content of every leading @import at the place of the @import, the
\* leading @layer statements at their place between the imports, the rules
\* of the file itself after them, and a file that is imported more than
\* once only at the first place the walk reaches it.
C7_DepthFirstOrder ==
  phase = "done" => Tokens(result.rules, result.sources) = DfsFile(Entry, {}).out

\* A bundle has returned for an entry that imports a file, has an @layer
\* statement after it, and imports the same file again.
C7_Witness ==
  /\ phase = "done"
  /\ \E i, j \in Imports : \E k \in DOMAIN items :
       /\ i < k /\ k < j
       /\ items[k].type = "LayerStatement"
       /\ items[i].src = Entry /\ items[k].src = Entry /\ items[j].src = Entry
       /\ items[i].url = items[j].url
       /\ items[i].url # Entry

(***************************************************************************)
(* C8: the wrappers of an emitted file.                                    *)
(***************************************************************************)
\* A rule list that is the single rule of the given type.
IsSingle(rules, type) == Len(rules) = 1 /\ rules[1].type = type

\* `new` holds the rules of file f in the wrappers of the condition l:
\* @layer outermost, @supports inside it, @media innermost, each only if
\* the condition has it.
WrappedAs(new, l, f) ==
  LET inLayer == IF IsSome(l.layer) THEN new[1].rules ELSE new
      inSupports == IF IsSome(l.supports) THEN inLayer[1].rules ELSE inLayer
      inMedia == IF l.media # <<>> THEN inSupports[1].rules ELSE inSupports
  IN /\ IsSome(l.layer) => IsSingle(new, "LayerBlock") /\ new[1].name = Unwrap(l.layer)
     /\ IsSome(l.supports) =>
          IsSingle(inLayer, "Supports") /\ inLayer[1].condition = Unwrap(l.supports)
     /\ l.media # <<>> => IsSingle(inSupports, "Media") /\ inSupports[1].query = l.media
     /\ \A k \in DOMAIN inMedia : ~IsWrapper(inMedia[k])
     /\ \E k \in DOMAIN inMedia : inMedia[k].type = "Style" /\ inMedia[k].file = f

\* C8: what inline appends to the output for a file is the rules of the
\* file wrapped in @media if its effective media list is not empty, that in
\* @supports if it has an effective supports condition, that in @layer if
\* it has an effective layer, so that @layer is outermost and @media
\* innermost; a file without a condition is appended unwrapped.
C8_WrapOrder ==
  [][(phase = "inline" /\ phase' = "inline" /\ Len(stack') < Len(stack)) =>
       WrappedAs(SubSeq(dest', Len(dest) + 1, Len(dest')),
                 Unwrap(loaded[Top.file]), Top.file)
    ]_vars

\* A file was emitted in all three wrappers.
C8_Witness ==
  \E k \in DOMAIN dest :
    /\ dest[k].type = "LayerBlock"
    /\ IsSingle(dest[k].rules, "Supports")
    /\ IsSingle(dest[k].rules[1].rules, "Media")

(***************************************************************************)
(* C9: @layer statements of a file emitted in a named layer.               *)
(***************************************************************************)
HasPrefix(name, prefix) ==
  Len(name) >= Len(prefix) /\ SubSeq(name, 1, Len(prefix)) = prefix

\* C9: for every imported file whose rules the returned stylesheet holds in
\* the block of a named layer, every name of every leading @layer statement
\* of that file is emitted with the name of that layer in front.
C9_LayerStatementsPrefixed ==
  phase = "done" =>
    \A k \in DOMAIN result.rules :
      (result.rules[k].type = "LayerBlock" /\ IsSome(result.rules[k].name)) =>
        \A f \in Range(StyleFiles(result.rules[k].rules)) \ {Entry} :
          \A m \in DOMAIN result.rules :
            (/\ result.rules[m].type = "LayerStatement"
             /\ result.sources[result.rules[m].loc.source_index + 1] = f) =>
              \A n \in DOMAIN result.rules[m].names :
                HasPrefix(result.rules[m].names[n], Unwrap(result.rules[k].name))

(***************************************************************************)
(* C10: a file that cannot be read.                                        *)
(***************************************************************************)
\* C10: when the source provider fails to read a file, the entry or an
\* imported file, load_file returns an error of kind IOError that carries a
\* source location, and bundle returns no stylesheet.
C10_ReadFailureIsIOError ==
  [][/\ \A i \in Tasks :
          (pc[i] = "read" /\ pc'[i] # "read" /\ status[Target(i)] = "unreadable") =>
            FailsWith(i, "IOError") /\ IsSome(err'[i][1].loc)
     /\ phase' = "done" => \A f \in Reach : status[f] # "unreadable"
    ]_vars

(***************************************************************************)
(* C11: what is left after a successful bundle.                            *)
(***************************************************************************)
\* A rule list holds an @import rule, at any depth.
RECURSIVE HasImport(_)
HasImport(rules) ==
  \E k \in DOMAIN rules :
    \/ rules[k].type = "Import"
    \/ IsWrapper(rules[k]) /\ HasImport(rules[k].rules)

\* The files whose @import rules lead, with one more @import rule after the
\* style rule of a file, which StyleSheet::parse of src/src/stylesheet.rs
\* and the rule parser of src/src/parser.rs accept.
MisplacedInputs ==
  UNION {{Append(s, LateImportItem(f, u)) : f \in SrcOptions(s), u \in UrlOptions(s)} :
           s \in ItemSeqs(MaxItems - 1, MixedPalette)}

MisplacedInit == InitWith(MisplacedInputs)

MisplacedSpec == MisplacedInit /\ [][Next]_vars

\* C11: when bundle has returned a stylesheet, no @import rule is left in
\* its rules at any depth, and the stylesheets map and the loaded map are
\* empty: every parsed file was consumed by inline.
C11_AllConsumed ==
  phase = "done" =>
    /\ ~HasImport(result.rules)
    /\ \A f \in Files : IsNone(stylesheets[f]) /\ IsNone(loaded[f])

(***************************************************************************)
(* C20: the owner of a path.                                               *)
(***************************************************************************)
\* The load_file calls for path f that went through the Vacant arm.
Owners(f) == {i \in Tasks : Target(i) = f /\ pc[i] \in {"read", "wait", "done"}}

\* C20: in every interleaving of the workers of phase 1, a call reads and
\* parses a path only after it inserted the vacant entry of the path into
\* loaded; a call that finds the entry occupied merges or fails, and never
\* reads, parses or inserts; a path is entered in the filename table and
\* its stylesheet inserted into stylesheets once, by its one owner.
C20_OneOwnerPerPath ==
  [][(phase = "load" /\ phase' # "inline") =>
       /\ \A i \in Tasks :
            (pc[i] = "ready" /\ pc'[i] = "read") =>
              IsNone(loaded[Target(i)]) /\ loaded'[Target(i)] = arg'[i]
       /\ \A i \in Tasks :
            (pc[i] = "ready" /\ pc'[i] # "ready" /\ IsSome(loaded[Target(i)])) =>
              /\ pc'[i] \in {"merged", "err"}
              /\ sources' = sources
              /\ stylesheets' = stylesheets
       /\ \A i \in Tasks : pc[i] = "merged" => pc'[i] = "merged"
       /\ \A f \in Files :
            Count(f, sources') > Count(f, sources) =>
              /\ Count(f, sources) = 0
              /\ \E i \in Tasks : Owners(f) = {i} /\ pc[i] = "read"
       /\ \A f \in Files :
            stylesheets'[f] # stylesheets[f] =>
              /\ IsNone(stylesheets[f])
              /\ Count(f, sources) = 1
              /\ \E i \in Tasks : Owners(f) = {i} /\ pc[i] = "wait" /\ pc'[i] = "done"
    ]_vars

\* An arrival merged into the entry of a path while the owner of the path
\* has not read the file yet.
C20_Witness ==
  \E i, j \in Tasks :
    /\ i # j
    /\ Target(i) = Target(j)
    /\ pc[i] = "read"
    /\ pc[j] = "merged"

(***************************************************************************)
(* StyleSheet::parse.  The text of a stylesheet is a sequence of top-level *)
(* rules; a rule is a qualified rule ("style") or an at-rule, named by its *)
(* at-keyword, and an @media rule has a body of nested rules.  "unknown"   *)
(* is an at-keyword no arm of the parser matches.  The location of a rule  *)
(* is its path of positions in the text.                                   *)
(***************************************************************************)
MaxRules == 3
MaxNested == 2

SeqsUpTo(S, n) == UNION {[1 .. m -> S] : m \in 0 .. n}

Src(kind, body) == [kind |-> kind, body |-> body]

NestedSources == {Src(k, <<>>) : k \in {"style", "import", "unknown"}}
TopSources ==
  {Src(k, <<>>) : k \in {"style", "import", "charset", "unknown"}} \cup
  {Src("media", b) : b \in SeqsUpTo(NestedSources, MaxNested)}
Codes == SeqsUpTo(TopSources, MaxRules)

\* Result<T, E>.
Ok(x) == [ok |-> TRUE, val |-> x]
Err(e) == [ok |-> FALSE, val |-> e]

\* NestedRuleParser: a qualified rule is a style rule, @media parses its
\* body with parse_nested_rules, and every at-keyword without an arm is
\* AtRuleInvalid.  parse_nested_rules pushes the rules that parsed, leaves
\* out Ignored, and drops the rules that failed.
RECURSIVE ParseNestedRule(_, _)
RECURSIVE parse_nested_rules(_, _)
ParseNestedRule(r, loc) ==
  CASE r.kind = "style" -> Ok([type |-> "Style", loc |-> loc])
    [] r.kind = "media" ->
         Ok([type |-> "Media", rules |-> parse_nested_rules(r.body, loc), loc |-> loc])
    [] OTHER -> Err("AtRuleInvalid")

parse_nested_rules(body, loc) ==
  SeqConcat([k \in DOMAIN body |->
    LET res == ParseNestedRule(body[k], Append(loc, k))
    IN IF res.ok /\ res.val.type # "Ignored" THEN <<res.val>> ELSE <<>>])

\* TopLevelRuleParser: @import becomes an Import rule and @charset becomes
\* Ignored wherever they stand; everything else goes to the nested parser.
ParseTopLevelRule(r, loc) ==
  CASE r.kind = "import" -> Ok([type |-> "Import", loc |-> loc])
    [] r.kind = "charset" -> Ok(Ignored)
    [] OTHER -> ParseNestedRule(r, loc)

\* One turn of the loop of StyleSheet::parse over the rule list parser.
ParseRule ==
  /\ parser.result = "Parsing"
  /\ parser.pos <= Len(code)
  /\ LET res == ParseTopLevelRule(code[parser.pos], <<parser.pos>>)
     IN parser' =
          IF ~res.ok THEN [parser EXCEPT !.result = "Err"]
          ELSE IF res.val.type = "Ignored" THEN [parser EXCEPT !.pos = parser.pos + 1]
          ELSE [parser EXCEPT !.pos = parser.pos + 1,
                              !.rules = Append(parser.rules, res.val)]
  /\ UNCHANGED <<code, scan, nonParserVars>>

\* The rule list is exhausted: Ok(StyleSheet).
ParseReturn ==
  /\ parser.result = "Parsing"
  /\ parser.pos > Len(code)
  /\ parser' = [parser EXCEPT !.result = "Ok"]
  /\ UNCHANGED <<code, scan, nonParserVars>>

\* Bundler::inline takes the rules of the parsed stylesheet.
ScanBegin ==
  /\ parser.result = "Ok"
  /\ scan.idx = 0
  /\ scan' = [rules |-> parser.rules, idx |-> 1, done |-> FALSE]
  /\ UNCHANGED <<code, parser, nonParserVars>>

\* Its loop replaces a leading @import or @layer statement by Ignored.
ScanLeading ==
  /\ scan.idx > 0
  /\ ~scan.done
  /\ AtLeadingRule(scan)
  /\ scan' = Consumed(scan)
  /\ UNCHANGED <<code, parser, nonParserVars>>

\* It stops at the first other rule, or at the end of the list.
ScanBreak ==
  /\ scan.idx > 0
  /\ ~scan.done
  /\ ~AtLeadingRule(scan)
  /\ scan' = [scan EXCEPT !.done = TRUE]
  /\ UNCHANGED <<code, parser, nonParserVars>>

\* No bundle is under way.
BundlerIdle ==
  /\ items = <<>>
  /\ status = [f \in Files |-> "ok"]
  /\ pc = [i \in {0} |-> "none"]
  /\ arg = [i \in {0} |-> None]
  /\ err = [i \in {0} |-> None]
  /\ loaded = [f \in Files |-> None]
  /\ stylesheets = [f \in Files |-> None]
  /\ sources = <<>>
  /\ phase = "idle"
  /\ stack = <<>>
  /\ dest = <<>>
  /\ result = [kind |-> "None"]

ParserInit ==
  /\ code \in Codes
  /\ parser = [pos |-> 1, rules |-> <<>>, result |-> "Parsing"]
  /\ scan = [rules |-> <<>>, idx |-> 0, done |-> FALSE]
  /\ BundlerIdle
  /\ SideIdle
  /\ OthersIdle

ParserNext ==
  \/ ParseRule
  \/ ParseReturn
  \/ ScanBegin
  \/ ScanLeading
  \/ ScanBreak

ParserSpec == ParserInit /\ [][ParserNext]_vars

\* The rules of a text that are well-formed where they stand, in source
\* order: a style rule and an @media rule anywhere, an @import at the top
\* level; an @charset makes no rule.
RECURSIVE Kept(_, _)
Kept(body, loc) ==
  SeqConcat([k \in DOMAIN body |->
    CASE body[k].kind = "style" -> <<[type |-> "Style", loc |-> Append(loc, k)]>>
      [] body[k].kind = "media" ->
           <<[type |-> "Media", rules |-> Kept(body[k].body, Append(loc, k)),
              loc |-> Append(loc, k)]>>
      [] body[k].kind = "import" /\ loc = <<>> ->
           <<[type |-> "Import", loc |-> Append(loc, k)]>>
      [] OTHER -> <<>>])

\* C12: whatever rules of a text fail to parse, at the top level or inside
\* a nested rule list, parse succeeds and returns exactly the rules that
\* parsed, in source order.
C12_ParseResilient ==
  parser.result \in {"Ok", "Err"} =>
    /\ parser.result = "Ok"
    /\ parser.rules = Kept(code, <<>>)

\* C13: in a stylesheet that parsed, only @import rules and @layer
\* statements come before an @import rule, so that the loop of inline,
\* when it stops, has left no @import in the rule list.
C13_ImportsLead ==
  /\ parser.result = "Ok" =>
       \A k \in DOMAIN parser.rules :
         parser.rules[k].type = "Import" =>
           \A j \in 1 .. k - 1 : parser.rules[j].type \in {"Import", "LayerStatement"}
  /\ scan.done => ~HasImport(scan.rules)

(***************************************************************************)
(* The side handlers: one macro, side_handler!, expanded for five          *)
(* families.  A declaration is a record [id, val]: id is the property of   *)
(* the family ("top" is margin-top for margin and top for inset, "block"   *)
(* is the block shorthand, "shorthand" the four-value shorthand), val the  *)
(* lengths of its value.  Unparsed holds the id of the property it was     *)
(* written for, and Logical a property id and a property for each          *)
(* direction.                                                              *)
(***************************************************************************)
MaxDecls == 3
MaxValue == 2

Families == {"margin", "padding", "scroll-margin", "scroll-padding", "inset"}

\* $logical_shorthand and $feature of the five expansions of the macro.
LogicalShorthand(fam) == fam = "inset"
HasFeature(fam) == fam \in {"margin", "padding", "inset"}

PhysicalSides == <<"top", "bottom", "left", "right">>
LogicalSides == <<"block_start", "block_end", "inline_start", "inline_end">>

Values == 1 .. MaxValue

Longhand(id, v) == [id |-> id, val |-> <<v>>]
BlockShorthand(s, e) == [id |-> "block", val |-> <<s, e>>]
InlineShorthand(s, e) == [id |-> "inline", val |-> <<s, e>>]
\* Rect::new(top, right, bottom, left)
Shorthand(top, right, bottom, left) == [id |-> "shorthand", val |-> <<top, right, bottom, left>>]
Unparsed(property_id) == [id |-> "unparsed", val |-> <<>>, property_id |-> property_id]
LogicalProperty(property_id, ltr, rtl) ==
  [id |-> "logical", val |-> <<>>, property_id |-> property_id, ltr |-> ltr, rtl |-> rtl]

\* The declarations of a family a block is made of; the last one is there
\* for the block margin-top: 1px; margin-block-start: 2px; margin-bottom: 3px.
Props ==
  {Longhand(id, v) : id \in Range(PhysicalSides) \cup Range(LogicalSides), v \in Values} \cup
  {BlockShorthand(1, 2), InlineShorthand(1, 1), InlineShorthand(1, 2)} \cup
  {Shorthand(1, 2, 3, 4), Unparsed("top")} \cup
  {Longhand("bottom", 3)}

Blocks == SeqsUpTo(Props, MaxDecls)

\* PropertyCategory
Categories == {"Physical", "Logical"}
CategoryOf(id) == IF id \in Range(PhysicalSides) THEN "Physical" ELSE "Logical"

\* #[derive(Default)]: every field None, has_any false.
NewHandler(category) ==
  [top |-> None, bottom |-> None, left |-> None, right |-> None,
   block_start |-> None, block_end |-> None, inline_start |-> None, inline_end |-> None,
   has_any |-> FALSE, category |-> category]

\* PropertyCategory::$category != self.category
CategoryNeverDiffers(category, h) == FALSE
CategoryDiffers(category, h) == category # h.category

\* let logical_supported = true $(&& context.is_supported(Feature::$feature))?
LogicalSupported(fam, supported) == HasFeature(fam) => supported

\* !$logical_shorthand || logical_supported
ShorthandAlways(fam, logical_supported) == TRUE
ShorthandAllowed(fam, logical_supported) == ~LogicalShorthand(fam) \/ logical_supported

\* if let Some(val) = o { dest.push($id(val)) }
PushSome(id, o) == IF IsSome(o) THEN <<Longhand(id, Unwrap(o))>> ELSE <<>>

\* logical_side!
LogicalSide(start, end, shorthand_prop, start_prop, end_prop) ==
  IF IsSome(start) /\ IsSome(end)
  THEN <<[id |-> shorthand_prop, val |-> <<Unwrap(start), Unwrap(end)>>]>>
  ELSE PushSome(start_prop, start) \o PushSome(end_prop, end)

\* Option::map
MapSome(id, o) == IF IsSome(o) THEN Some(Longhand(id, Unwrap(o))) ELSE None

\* PropertyHandlerContext::add_inline_logical_properties: what it pushes.
AddInlineLogicalSwapped(left, right, start, end) ==
  <<LogicalProperty(left, end, start), LogicalProperty(right, start, end)>>
add_inline_logical_properties(left, right, start, end) ==
  <<LogicalProperty(left, start, end), LogicalProperty(right, end, start)>>

\* What flush pushes for the physical fields, the block fields and the
\* inline fields of h.
FlushPhysical(h, fam, logical_supported) ==
  IF /\ ShorthandAllowed(fam, logical_supported)
     /\ IsSome(h.top) /\ IsSome(h.bottom) /\ IsSome(h.left) /\ IsSome(h.right)
  THEN <<Shorthand(Unwrap(h.top), Unwrap(h.right), Unwrap(h.bottom), Unwrap(h.left))>>
  ELSE PushSome("top", h.top) \o PushSome("bottom", h.bottom) \o
       PushSome("left", h.left) \o PushSome("right", h.right)

\* A flush that takes block-start for the bottom and block-end for the top
\* where the targets lack the logical properties.
FlushBlockSwapped(h, logical_supported) ==
  IF logical_supported
  THEN LogicalSide(h.block_start, h.block_end, "block", "block_start", "block_end")
  ELSE PushSome("bottom", h.block_start) \o PushSome("top", h.block_end)

FlushBlock(h, logical_supported) ==
  IF logical_supported
  THEN LogicalSide(h.block_start, h.block_end, "block", "block_start", "block_end")
  ELSE PushSome("top", h.block_start) \o PushSome("bottom", h.block_end)

InlineNeedsDirection(h, logical_supported) ==
  /\ ~logical_supported
  /\ IsSome(h.inline_start) \/ IsSome(h.inline_end)
  /\ h.inline_start # h.inline_end

FlushInline(h, logical_supported) ==
  IF logical_supported
  THEN LogicalSide(h.inline_start, h.inline_end, "inline", "inline_start", "inline_end")
  ELSE IF IsNone(h.inline_start) /\ IsNone(h.inline_end) THEN <<>>
  ELSE IF h.inline_start = h.inline_end
  THEN <<Longhand("left", Unwrap(h.inline_start)), Longhand("right", Unwrap(h.inline_end))>>
  ELSE add_inline_logical_properties("left", "right",
                                     MapSome("inline_start", h.inline_start),
                                     MapSome("inline_end", h.inline_end))

\* std::mem::take of the eight fields, has_any = false; category stays.
Taken(h) == [NewHandler(h.category) EXCEPT !.has_any = FALSE]

\* flush: the handler, the declaration list and the used_logical flag it
\* leaves.
Flush(h, out, fam, supported) ==
  IF ~h.has_any THEN [handler |-> h, out |-> out]
  ELSE LET logical_supported == LogicalSupported(fam, supported)
       IN [handler |-> Taken(h),
           out |-> [out EXCEPT
                      !.dest = out.dest \o FlushPhysical(h, fam, logical_supported)
                                        \o FlushBlock(h, logical_supported)
                                        \o FlushInline(h, logical_supported),
                      !.used_logical = out.used_logical
                                         \/ InlineNeedsDirection(h, logical_supported)]]

\* The declaration handle_property is called with next.
Handling == ~sideOut.done /\ sideOut.pos < Len(side.props)
Property == side.props[sideOut.pos + 1]
Advanced(out) == [out EXCEPT !.pos = out.pos + 1]

\* property!: one of the eight longhands.
HandleLonghand ==
  /\ Handling
  /\ Property.id \in Range(PhysicalSides) \cup Range(LogicalSides)
  /\ LET category == CategoryOf(Property.id)
         f == IF CategoryDiffers(category, handler)
              THEN Flush(handler, sideOut, side.family, side.supported)
              ELSE [handler |-> handler, out |-> sideOut]
     IN /\ handler' = [f.handler EXCEPT ![Property.id] = Some(Property.val[1]),
                                        !.category = category,
                                        !.has_any = TRUE]
        /\ sideOut' = Advanced(f.out)
  /\ UNCHANGED <<side, nonSideVars>>

\* set_shorthand!: the block or the inline shorthand.
HandleLogicalShorthand ==
  /\ Handling
  /\ Property.id \in {"block", "inline"}
  /\ LET f == IF CategoryDiffers("Logical", handler)
              THEN Flush(handler, sideOut, side.family, side.supported)
              ELSE [handler |-> handler, out |-> sideOut]
         start == IF Property.id = "block" THEN "block_start" ELSE "inline_start"
         end == IF Property.id = "block" THEN "block_end" ELSE "inline_end"
     IN /\ handler' = [f.handler EXCEPT ![start] = Some(Property.val[1]),
                                        ![end] = Some(Property.val[2]),
                                        !.category = "Logical",
                                        !.has_any = TRUE]
        /\ sideOut' = Advanced(f.out)
  /\ UNCHANGED <<side, nonSideVars>>

\* The $shorthand arm with the logical fields left as they are.
SetRectKeepLogical(h, val) ==
  [h EXCEPT !.top = Some(val[1]), !.right = Some(val[2]),
            !.bottom = Some(val[3]), !.left = Some(val[4]),
            !.has_any = TRUE]

\* The assignments of the $shorthand arm: val.0 .. val.3 to top, right,
\* bottom, left; None to the four logical fields; has_any = true.
SetRect(h, val) ==
  [h EXCEPT !.top = Some(val[1]),
            !.right = Some(val[2]),
            !.bottom = Some(val[3]),
            !.left = Some(val[4]),
            !.block_start = None, !.block_end = None,
            !.inline_start = None, !.inline_end = None,
            !.has_any = TRUE]

\* $shorthand: the four physical fields are set and the logical ones
\* cleared; nothing is flushed and category stays.
HandleShorthand ==
  /\ Handling
  /\ Property.id = "shorthand"
  /\ handler' = SetRect(handler, Property.val)
  /\ sideOut' = Advanced(sideOut)
  /\ UNCHANGED <<side, nonSideVars>>

\* Unparsed of a property of the family: flush, then push it as it is.
HandleUnparsed ==
  /\ Handling
  /\ Property.id = "unparsed"
  /\ LET f == Flush(handler, sideOut, side.family, side.supported)
     IN /\ handler' = f.handler
        /\ sideOut' = Advanced([f.out EXCEPT !.dest = Append(f.out.dest, Property)])
  /\ UNCHANGED <<side, nonSideVars>>

\* finalize, at the end of the block.
Finalize ==
  /\ ~sideOut.done
  /\ sideOut.pos = Len(side.props)
  /\ LET f == Flush(handler, sideOut, side.family, side.supported)
     IN /\ handler' = f.handler
        /\ sideOut' = [f.out EXCEPT !.done = TRUE]
  /\ UNCHANGED <<side, nonSideVars>>

SideInit ==
  /\ side \in [family : Families, supported : BOOLEAN, props : Blocks]
  /\ handler \in {NewHandler(c) : c \in Categories}
  /\ sideOut = [dest |-> <<>>, used_logical |-> FALSE, pos |-> 0, done |-> FALSE]
  /\ BundlerIdle
  /\ ParserIdle
  /\ OthersIdle

SideNext ==
  \/ HandleLonghand
  \/ HandleLogicalShorthand
  \/ HandleShorthand
  \/ HandleUnparsed
  \/ Finalize

SideSpec == SideInit /\ [][SideNext]_vars

(***************************************************************************)
(* What a declaration list means: the value each physical side ends with   *)
(* when the declarations are applied in order, under a mapping of the      *)
(* logical sides to the physical ones (a writing mode and a direction).    *)
(* A side starts at <<0>>, and an unparsed value is <<>>.                  *)
(***************************************************************************)
Mappings ==
  {[block_start |-> "top", block_end |-> "bottom", inline_start |-> "left", inline_end |-> "right"],
   [block_start |-> "top", block_end |-> "bottom", inline_start |-> "right", inline_end |-> "left"],
   [block_start |-> "right", block_end |-> "left", inline_start |-> "top", inline_end |-> "bottom"],
   [block_start |-> "left", block_end |-> "right", inline_start |-> "top", inline_end |-> "bottom"]}

InitialSides == [top |-> <<0>>, bottom |-> <<0>>, left |-> <<0>>, right |-> <<0>>]

Apply(st, d, m) ==
  CASE d.id \in Range(PhysicalSides) -> [st EXCEPT ![d.id] = d.val]
    [] d.id \in Range(LogicalSides) -> [st EXCEPT ![m[d.id]] = d.val]
    [] d.id = "block" ->
         [st EXCEPT ![m.block_start] = <<d.val[1]>>, ![m.block_end] = <<d.val[2]>>]
    [] d.id = "inline" ->
         [st EXCEPT ![m.inline_start] = <<d.val[1]>>, ![m.inline_end] = <<d.val[2]>>]
    [] d.id = "shorthand" ->
         [top |-> <<d.val[1]>>, right |-> <<d.val[2]>>,
          bottom |-> <<d.val[3]>>, left |-> <<d.val[4]>>]
    [] d.id = "unparsed" -> [st EXCEPT ![d.property_id] = <<>>]
    [] OTHER -> st

RECURSIVE Cascade(_, _, _)
Cascade(decls, st, m) ==
  IF decls = <<>> THEN st ELSE Cascade(Tail(decls), Apply(st, Head(decls), m), m)

\* The fields of a handler that hold a value.
Buffered(h) == {f \in Range(PhysicalSides) \cup Range(LogicalSides) : IsSome(h[f])}

\* What a step has pushed to the declaration list.
Emitted == SubSeq(sideOut'.dest, Len(sideOut.dest) + 1, Len(sideOut'.dest))

ExampleBlock == <<Longhand("top", 1), Longhand("block_start", 2), Longhand("bottom", 3)>>

HasLogicalVariant(fam) == fam \in Families

\* The physical longhands a handler holds, in the order flush pushes them.
PhysicalLonghands(h) ==
  SeqConcat([k \in 1 .. 4 |->
    IF IsSome(h[PhysicalSides[k]])
    THEN <<Longhand(PhysicalSides[k], Unwrap(h[PhysicalSides[k]]))>>
    ELSE <<>>])

\* What a step has pushed by flushing: an Unparsed declaration is pushed
\* after the flush.
Flushed ==
  IF Handling /\ Property.id = "unparsed"
  THEN SubSeq(Emitted, 1, Len(Emitted) - 1)
  ELSE Emitted

\* A step that flushes a handler holding values pushes the four-value
\* shorthand, first and once, if all four physical fields are set and
\* allowed holds, and otherwise pushes no shorthand and starts with the
\* physical longhands that are set; finalize flushes.
PhysicalAsClaimed(allowed) ==
  /\ (~sideOut.done /\ sideOut'.done /\ handler.has_any) => Flushed # <<>>
  /\ Flushed # <<>> =>
       IF Range(PhysicalSides) \subseteq Buffered(handler) /\ allowed
       THEN /\ Flushed[1] = Shorthand(Unwrap(handler.top), Unwrap(handler.right),
                                      Unwrap(handler.bottom), Unwrap(handler.left))
            /\ \A k \in 2 .. Len(Flushed) : Flushed[k].id # "shorthand"
       ELSE /\ \A k \in 1 .. Len(Flushed) : Flushed[k].id # "shorthand"
            /\ Len(Flushed) >= Len(PhysicalLonghands(handler))
            /\ SubSeq(Flushed, 1, Len(PhysicalLonghands(handler))) = PhysicalLonghands(handler)

\* C15, as stated: the shorthand is pushed if and only if all four physical
\* longhands are buffered and the targets support the logical properties
\* of the family or the family has no logical variant.
C15_ShorthandIffLogicalSupported ==
  [][PhysicalAsClaimed(\/ LogicalSupported(side.family, side.supported)
                       \/ ~HasLogicalVariant(side.family))]_vars

\* C15, amended: the shorthand is pushed if and only if all four physical
\* longhands are buffered and, for inset only, the targets support the
\* logical inset properties; margin, padding, scroll-margin and
\* scroll-padding get their shorthand whatever the targets.
C15_ShorthandIff ==
  [][PhysicalAsClaimed(\/ side.family # "inset"
                       \/ LogicalSupported(side.family, side.supported))]_vars

\* A margin block finalized into the shorthand for targets without logical
\* properties.
C15_Witness ==
  /\ sideOut.done
  /\ side.family = "margin"
  /\ ~side.supported
  /\ \E k \in DOMAIN sideOut.dest : sideOut.dest[k].id = "shorthand"

\* What a flush has pushed after the physical fields.
FlushedLogical ==
  LET n == IF Flushed # <<>> /\ Flushed[1].id = "shorthand" THEN 1
           ELSE Len(PhysicalLonghands(handler))
  IN SubSeq(Flushed, n + 1, Len(Flushed))

\* A start/end pair for targets that support it: the two-value shorthand
\* when both are there, else the lone side as its logical longhand.
FoldedPair(h, shorthand, start, end) ==
  IF IsSome(h[start]) /\ IsSome(h[end])
  THEN <<[id |-> shorthand, val |-> <<Unwrap(h[start]), Unwrap(h[end])>>]>>
  ELSE IF IsSome(h[start]) THEN <<Longhand(start, Unwrap(h[start]))>>
  ELSE IF IsSome(h[end]) THEN <<Longhand(end, Unwrap(h[end]))>>
  ELSE <<>>

\* The block sides as top and bottom.
BlockAsPhysical(h) ==
  (IF IsSome(h.block_start) THEN <<Longhand("top", Unwrap(h.block_start))>> ELSE <<>>) \o
  (IF IsSome(h.block_end) THEN <<Longhand("bottom", Unwrap(h.block_end))>> ELSE <<>>)

\* The inline sides are both there and equal.
InlineEqual(h) ==
  IsSome(h.inline_start) /\ IsSome(h.inline_end) /\ Unwrap(h.inline_start) = Unwrap(h.inline_end)

\* The inline sides as a pair of Logical properties: left is start in ltr
\* and end in rtl, right is end in ltr and start in rtl.
InlineAsDirectional(h) ==
  LET start == IF IsSome(h.inline_start)
               THEN Some(Longhand("inline_start", Unwrap(h.inline_start))) ELSE None
      end == IF IsSome(h.inline_end)
             THEN Some(Longhand("inline_end", Unwrap(h.inline_end))) ELSE None
  IN <<[id |-> "logical", val |-> <<>>, property_id |-> "left", ltr |-> start, rtl |-> end],
       [id |-> "logical", val |-> <<>>, property_id |-> "right", ltr |-> end, rtl |-> start]>>

\* C16: what a flush pushes for the logical fields.  For targets that
\* support the logical properties: the block shorthand or the lone block
\* side, then the inline shorthand or the lone inline side.  For targets
\* that do not: block-start as top and block-end as bottom, then the inline
\* sides as left and right when both are set and equal, and otherwise as
\* the pair of Logical properties, with used_logical set.
C16_LogicalEmission ==
  [][Flushed # <<>> =>
       IF LogicalSupported(side.family, side.supported)
       THEN /\ FlushedLogical = FoldedPair(handler, "block", "block_start", "block_end") \o
                                FoldedPair(handler, "inline", "inline_start", "inline_end")
            /\ sideOut'.used_logical = sideOut.used_logical
       ELSE IF IsNone(handler.inline_start) /\ IsNone(handler.inline_end)
       THEN /\ FlushedLogical = BlockAsPhysical(handler)
            /\ sideOut'.used_logical = sideOut.used_logical
       ELSE IF InlineEqual(handler)
       THEN /\ FlushedLogical = BlockAsPhysical(handler) \o
                                <<Longhand("left", Unwrap(handler.inline_start)),
                                  Longhand("right", Unwrap(handler.inline_end))>>
            /\ sideOut'.used_logical = sideOut.used_logical
       ELSE /\ FlushedLogical = BlockAsPhysical(handler) \o InlineAsDirectional(handler)
            /\ sideOut'.used_logical
    ]_vars

\* A block finalized for targets without logical properties, its inline
\* sides different: the pair of Logical properties is in the list and
\* used_logical is set.
C16_Witness ==
  /\ sideOut.done
  /\ sideOut.used_logical
  /\ \E k \in DOMAIN sideOut.dest :
       /\ sideOut.dest[k].id = "logical"
       /\ sideOut.dest[k].property_id = "left"
       /\ sideOut.dest[k].ltr = Some(Longhand("inline_start", 1))
       /\ sideOut.dest[k].rtl = Some(Longhand("inline_end", 2))

\* The property id of a declaration.
PropertyIdOf(d) == IF d.id \in {"unparsed", "logical"} THEN d.property_id ELSE d.id

\* C17: a finalized block of one family has no two declarations with the
\* same property id.
C17_NoDuplicateIds ==
  (sideOut.done /\ side.family \in Families) =>
    \A j, k \in DOMAIN sideOut.dest :
      PropertyIdOf(sideOut.dest[j]) = PropertyIdOf(sideOut.dest[k]) => j = k

(***************************************************************************)
(* Vendor prefixes.  A mask is a number below 32, the sum of its flags.    *)
(* What Property::to_css writes is a sequence of pieces: a declaration     *)
(* (the prefix it is written with, its value, whether !important follows)  *)
(* or the ';' and newline between two declarations.                        *)
(***************************************************************************)
VendorPrefix == [None |-> 1, WebKit |-> 2, Moz |-> 4, Ms |-> 8, O |-> 16]

AllPrefixes ==
  VendorPrefix.None + VendorPrefix.WebKit + VendorPrefix.Moz + VendorPrefix.Ms + VendorPrefix.O

Masks == 0 .. AllPrefixes

\* prefix.contains(p), p one flag
Contains(mask, p) == (mask \div p) % 2 = 1

\* u8::trailing_zeros of a number that is not zero
RECURSIVE TrailingZeros(_)
TrailingZeros(bits) == IF bits % 2 = 1 THEN 0 ELSE 1 + TrailingZeros(bits \div 2)

\* VendorPrefix::from_bits_truncate of one bit
FromBitsTruncate(b) == IF b <= AllPrefixes THEN b ELSE 0

\* The order of the write! calls of an arm of to_css.
WriteOrderNoneFirst ==
  <<VendorPrefix.None, VendorPrefix.WebKit, VendorPrefix.Moz, VendorPrefix.Ms, VendorPrefix.O>>
WriteOrder ==
  <<VendorPrefix.WebKit, VendorPrefix.Moz, VendorPrefix.Ms, VendorPrefix.O, VendorPrefix.None>>

Declaration(p, value, important) ==
  [kind |-> "decl", prefix |-> p, value |-> value, important |-> important]
Separator == [kind |-> ";", prefix |-> 0, value |-> 0, important |-> FALSE]

\* The arms of to_css that look at a prefix mask: a property with a
\* prefix, Unparsed and Logical.
Arms == {"prefixed", "unparsed", "logical"}

\* One write! of the arm: if the mask contains the flag, start! (nothing
\* the first time, then ';' and a newline) and the declaration.
Write ==
  /\ ~printer.done
  /\ printer.step <= Len(WriteOrder)
  /\ LET p == WriteOrder[printer.step]
     IN printer' =
          IF Contains(printer.mask, p)
          THEN [printer EXCEPT
                  !.dest = printer.dest \o (IF printer.first THEN <<>> ELSE <<Separator>>)
                                        \o <<Declaration(p, printer.value, printer.important)>>,
                  !.first = FALSE,
                  !.step = printer.step + 1]
          ELSE [printer EXCEPT !.step = printer.step + 1]
  /\ UNCHANGED <<iter, nonPrinterVars>>

\* Ok(())
ToCssReturn ==
  /\ ~printer.done
  /\ printer.step > Len(WriteOrder)
  /\ printer' = [printer EXCEPT !.done = TRUE]
  /\ UNCHANGED <<iter, nonPrinterVars>>

\* VendorPrefixIter::next
IterNext ==
  /\ ~iter.done
  /\ LET bits == iter.bits - (iter.bits % 2)
     IN iter' =
          IF iter.bits = 1
          THEN [iter EXCEPT !.bits = 0, !.yielded = Append(iter.yielded, VendorPrefix.None)]
          ELSE IF bits # 0
          THEN LET b == TrailingZeros(bits)
               IN [iter EXCEPT
                     !.bits = (bits - 2 ^ b) + (iter.bits % 2),
                     !.yielded = Append(iter.yielded, FromBitsTruncate(2 ^ b))]
          ELSE [iter EXCEPT !.done = TRUE]
  /\ UNCHANGED <<printer, nonPrinterVars>>

\* A property about to be printed, and into_iter of its mask.
PrinterInit ==
  /\ printer \in [arm : Arms, mask : Masks, value : Values, important : BOOLEAN,
                  dest : {<<>>}, first : {TRUE}, step : {1}, done : {FALSE}]
  /\ iter = [bits |-> printer.mask, yielded |-> <<>>, done |-> FALSE]
  /\ BundlerIdle
  /\ ParserIdle
  /\ SideIdle
  /\ ContextIdle
  /\ LaterIdle

PrinterNext ==
  \/ Write
  \/ ToCssReturn
  \/ IterNext

PrinterSpec == PrinterInit /\ [][PrinterNext]_vars

\* The number of flags of a mask.
RECURSIVE PopCount(_)
PopCount(mask) == IF mask = 0 THEN 0 ELSE (mask % 2) + PopCount(mask \div 2)

\* The place of a flag in the order WebKit, Moz, Ms, O, None.
PrefixRank(p) ==
  CASE p = VendorPrefix.WebKit -> 1
    [] p = VendorPrefix.Moz -> 2
    [] p = VendorPrefix.Ms -> 3
    [] p = VendorPrefix.O -> 4
    [] p = VendorPrefix.None -> 5
    [] OTHER -> 0

IsDeclaration(piece) == piece.kind = "decl"

\* C18: a printed property with mask P is popcount(P) declarations, one for
\* each flag of P, in the order WebKit, Moz, Ms, O, None, each with the
\* value and the !important flag of the property, with a ';' between two
\* of them and nowhere else; the iterator over P, once exhausted, has
\* yielded the flags of these declarations in the same order.
C18_OnePerPrefix ==
  (printer.done /\ printer.arm \in Arms) =>
    LET decls == SelectSeq(printer.dest, IsDeclaration)
    IN /\ Len(decls) = PopCount(printer.mask)
       /\ \A k \in DOMAIN decls :
            /\ Contains(printer.mask, decls[k].prefix)
            /\ decls[k].value = printer.value
            /\ decls[k].important = printer.important
            /\ \A j \in 1 .. k - 1 : PrefixRank(decls[j].prefix) < PrefixRank(decls[k].prefix)
       /\ Len(printer.dest) = (IF decls = <<>> THEN 0 ELSE 2 * Len(decls) - 1)
       /\ \A k \in DOMAIN printer.dest : IsDeclaration(printer.dest[k]) <=> k % 2 = 1
       /\ iter.done => iter.yielded = [k \in DOMAIN decls |-> decls[k].prefix]

\* A property with every flag set, printed, and its iterator exhausted.
C18_Witness ==
  /\ printer.done
  /\ iter.done
  /\ printer.mask = AllPrefixes
  /\ Len(iter.yielded) = 5
  /\ Len(printer.dest) = 9

(***************************************************************************)
(* The @supports accumulator of PropertyHandlerContext.  A style rule is   *)
(* minified with one context: its handlers call add_conditional_property,  *)
(* the caller sets is_important for the important declarations, and        *)
(* get_supports_rules is called when the rule is done.  The style rules    *)
(* are numbered, and the number of a rule stands for its selectors and     *)
(* its location.                                                           *)
(***************************************************************************)
MaxCalls == 4
MaxStyleRules == 2

Conditions == {"c1", "c2"}
ConditionalProps == {"p1", "p2"}

\* DeclarationContext of a context: a style rule, or keyframes.
Contexts == {"StyleRule", "Keyframes"}

SupportsEntry(condition, declarations, important_declarations) ==
  [condition |-> condition, declarations |-> declarations,
   important_declarations |-> important_declarations]

\* iter_mut().find(|supports| condition == supports.condition)
Find(supports, condition) ==
  LET ks == {k \in DOMAIN supports : supports[k].condition = condition}
  IN IF ks = {} THEN 0 ELSE CHOOSE k \in ks : \A j \in ks : k <= j

\* The caller sets the pub field is_important.
SetImportant ==
  /\ ctxLog.rule < MaxStyleRules
  /\ context' = [context EXCEPT !.is_important = ~context.is_important]
  /\ UNCHANGED <<ctxLog, nonContextVars>>

\* add_conditional_property(condition, property)
AddConditionalProperty(condition, property) ==
  /\ ctxLog.calls < MaxCalls
  /\ ctxLog.rule < MaxStyleRules
  /\ IF context.context # "StyleRule"
     THEN /\ context' = context
          /\ ctxLog' = [ctxLog EXCEPT !.calls = ctxLog.calls + 1]
     ELSE /\ LET k == Find(context.supports, condition)
             IN context' =
                  IF k # 0
                  THEN IF context.is_important
                       THEN [context EXCEPT !.supports[k].important_declarations =
                               Append(context.supports[k].important_declarations, property)]
                       ELSE [context EXCEPT !.supports[k].declarations =
                               Append(context.supports[k].declarations, property)]
                  ELSE [context EXCEPT !.supports =
                          Append(context.supports,
                                 IF context.is_important
                                 THEN SupportsEntry(condition, <<>>, <<property>>)
                                 ELSE SupportsEntry(condition, <<property>>, <<>>))]
          /\ ctxLog' = [ctxLog EXCEPT
                          !.calls = ctxLog.calls + 1,
                          !.registered = Append(ctxLog.registered,
                                                [condition |-> condition, property |-> property,
                                                 important |-> context.is_important])]
  /\ UNCHANGED nonContextVars

\* std::mem::take(&mut self.supports): what is left in the field.
KeepSupports(supports) == supports
TakeSupports(supports) == <<>>

\* The style rule get_supports_rules is called with.
CurrentStyleRule == [selectors |-> ctxLog.rule + 1, loc |-> ctxLog.rule + 1]

\* The rule get_supports_rules makes of an entry.
SupportsRuleOf(entry, style_rule) ==
  SupportsRule(entry.condition,
               <<[type |-> "Style", selectors |-> style_rule.selectors,
                  vendor_prefix |-> VendorPrefix.None,
                  declarations |-> entry.declarations,
                  important_declarations |-> entry.important_declarations,
                  rules |-> <<>>, loc |-> style_rule.loc]>>,
               style_rule.loc)

\* get_supports_rules(style_rule)
GetSupportsRules ==
  /\ ctxLog.rule < MaxStyleRules
  /\ LET rules == [k \in DOMAIN context.supports |->
                     SupportsRuleOf(context.supports[k], CurrentStyleRule)]
     IN /\ context' = IF context.supports = <<>> THEN context
                      ELSE [context EXCEPT !.supports = TakeSupports(context.supports)]
        /\ ctxLog' = [ctxLog EXCEPT
                        !.rule = ctxLog.rule + 1,
                        !.registered = <<>>,
                        !.last = Some([style_rule |-> CurrentStyleRule,
                                       registered |-> ctxLog.registered,
                                       rules |-> rules])]
  /\ UNCHANGED nonContextVars

\* PropertyHandlerContext::new, and the context the caller sets.
ContextInit ==
  /\ context \in [context : Contexts, is_important : {FALSE}, supports : {<<>>}]
  /\ ctxLog = [calls |-> 0, rule |-> 0, registered |-> <<>>, last |-> None]
  /\ BundlerIdle
  /\ ParserIdle
  /\ SideIdle
  /\ PrinterIdle
  /\ LaterIdle

ContextNext ==
  \/ SetImportant
  \/ \E condition \in Conditions, property \in ConditionalProps :
       AddConditionalProperty(condition, property)
  \/ GetSupportsRules

ContextSpec == ContextInit /\ [][ContextNext]_vars

\* The conditions of a sequence of registrations, each once, in the order
\* of their first registration.
RECURSIVE FirstConditions(_)
FirstConditions(reg) ==
  IF reg = <<>> THEN <<>>
  ELSE LET front == FirstConditions(SubSeq(reg, 1, Len(reg) - 1))
           c == reg[Len(reg)].condition
       IN IF c \in Range(front) THEN front ELSE Append(front, c)

\* The properties registered under a condition with a given importance, in
\* registration order.
RECURSIVE RegisteredUnder(_, _, _)
RegisteredUnder(reg, condition, important) ==
  IF reg = <<>> THEN <<>>
  ELSE (IF Head(reg).condition = condition /\ Head(reg).important = important
        THEN <<Head(reg).property>> ELSE <<>>) \o
       RegisteredUnder(Tail(reg), condition, important)

\* C19: get_supports_rules returns one @supports rule for each condition
\* registered since the last call, in the order of first registration,
\* each holding one style rule with the selectors of the style rule it was
\* called with and the properties registered under the condition, the
\* important ones in the important list; and it leaves the accumulator
\* empty, so that nothing registered before the call is returned again.
C19_OneRulePerCondition ==
  /\ ctxLog.registered = <<>> => context.supports = <<>>
  /\ IsSome(ctxLog.last) =>
       LET l == Unwrap(ctxLog.last)
           conds == FirstConditions(l.registered)
       IN /\ Len(l.rules) = Len(conds)
          /\ \A k \in DOMAIN l.rules :
               /\ l.rules[k].type = "Supports"
               /\ l.rules[k].condition = conds[k]
               /\ Len(l.rules[k].rules) = 1
               /\ l.rules[k].rules[1].type = "Style"
               /\ l.rules[k].rules[1].selectors = l.style_rule.selectors
               /\ l.rules[k].rules[1].declarations =
                    RegisteredUnder(l.registered, conds[k], FALSE)
               /\ l.rules[k].rules[1].important_declarations =
                    RegisteredUnder(l.registered, conds[k], TRUE)

\* get_supports_rules called for the second style rule of a context, with
\* two conditions registered for it, one of them twice.
C19_Witness ==
  /\ ctxLog.rule = 2
  /\ IsSome(ctxLog.last)
  /\ Len(Unwrap(ctxLog.last).rules) = 2
  /\ Len(Unwrap(ctxLog.last).registered) = 3
  /\ Unwrap(ctxLog.last).style_rule.selectors = 2

(***************************************************************************)
(* C21: the source indices of the loaded files.                            *)
(***************************************************************************)
\* The locations of the rules of a rule list, at any depth.
RECURSIVE Locations(_)
Locations(rules) ==
  UNION {IF rules[k].type = "Ignored" THEN {}
         ELSE IF IsWrapper(rules[k]) THEN {rules[k].loc} \cup Locations(rules[k].rules)
         ELSE {rules[k].loc} : k \in DOMAIN rules}

\* The style rules of a rule list, at any depth.
RECURSIVE StyleRules(_)
StyleRules(rules) ==
  UNION {IF rules[k].type = "Style" THEN {rules[k]}
         ELSE IF IsWrapper(rules[k]) THEN StyleRules(rules[k].rules)
         ELSE {} : k \in DOMAIN rules}

\* C21: under every interleaving of the workers of phase 1, every loaded
\* file has its own place in the filename table, the source index of its
\* rules is that place, every source index of the returned stylesheet is an
\* index into the returned filename table, and no error location is built
\* from a source index outside the filename table.
C21_SourceIndexValid ==
  /\ \A f \in Files : Count(f, sources) <= 1
  /\ \A i \in Tasks : pc[i] # "panic"
  /\ phase = "done" =>
       /\ \A l \in Locations(result.rules) : l.source_index < Len(result.sources)
       /\ \A r \in StyleRules(result.rules) :
            result.sources[r.loc.source_index + 1] = r.file

(***************************************************************************)
(* C22: the four-value shorthand of a side family.                         *)
(***************************************************************************)
\* What a flush appends to the declaration list for handler h.
FlushOutput(h) ==
  Flush(h, [dest |-> <<>>, used_logical |-> FALSE, pos |-> 0, done |-> FALSE],
        side.family, side.supported).out.dest

\* C22: when the handler accepts the four-value shorthand, its four values
\* replace the four buffered physical values, every buffered logical value
\* is discarded, nothing is emitted, and a flush of the handler then emits
\* what it emits for the shorthand alone: no value buffered before the
\* shorthand is in the output.
C22_ShorthandReplacesBuffered ==
  [][(Handling /\ Property.id = "shorthand") =>
       /\ handler'.top = Some(Property.val[1])
       /\ handler'.right = Some(Property.val[2])
       /\ handler'.bottom = Some(Property.val[3])
       /\ handler'.left = Some(Property.val[4])
       /\ \A id \in Range(LogicalSides) : IsNone(handler'[id])
       /\ sideOut'.dest = sideOut.dest
       /\ FlushOutput(handler') = FlushOutput(SetRect(NewHandler(handler.category), Property.val))
    ]_vars

\* A block with two logical longhands and then the shorthand has been
\* finalized, and only what the shorthand gives is in the output.
C22_Witness ==
  /\ sideOut.done
  /\ side.props = <<Longhand("block_start", 2), Longhand("inline_end", 1), Shorthand(1, 2, 3, 4)>>
  /\ handler.category = "Logical"
  /\ Len(sideOut.dest) \in {1, 4}
  /\ \A k \in DOMAIN sideOut.dest : sideOut.dest[k].id # "block_start"

(***************************************************************************)
(* The block of an @media or @supports rule nested in a style rule:        *)
(* parse_nested_at_rule and parse_declarations_and_nested_rules, with      *)
(* nesting enabled.  The block is a sequence of items: declarations,       *)
(* important or not, nested style rules and nested at-rules.               *)
(***************************************************************************)
MaxBlockItems == 3

DeclarationItem(name, important) ==
  [type |-> "Declaration", name |-> name, important |-> important]
NestedStyleItem == [type |-> "Style", selectors |-> "& .a"]
NestedMediaItem == [type |-> "Media", selectors |-> ""]

BlockItems ==
  {DeclarationItem(n, i) : n \in {"color", "width"}, i \in BOOLEAN}
    \cup {NestedStyleItem, NestedMediaItem}

NestedBlocks == SeqsUpTo(BlockItems, MaxBlockItems)

\* The item the parser is at.
NestItem == nest.input[nest.pos + 1]
NestAtEnd == nest.pos = Len(nest.input)

\* declarations.declarations.len() > 0
HasDeclarations(declarations, important_declarations) == Len(declarations) > 0

\* The style rule with the selector `&` that holds the declaration block.
NestingStyleRule(declarations, important_declarations) ==
  [type |-> "Style", selectors |-> "&", declarations |-> declarations,
   important_declarations |-> important_declarations]

\* StyleRuleParser::parse_value: a declaration, met while no rule has been
\* pushed, goes to the list its importance names.
NestDeclaration ==
  /\ nest.stage = "declarations"
  /\ ~NestAtEnd
  /\ NestItem.type = "Declaration"
  /\ nest.rules = <<>>
  /\ nest' = IF NestItem.important
             THEN [nest EXCEPT !.important_declarations = Append(@, NestItem.name),
                               !.pos = @ + 1]
             ELSE [nest EXCEPT !.declarations = Append(@, NestItem.name),
                               !.pos = @ + 1]
  /\ UNCHANGED nonNestVars

\* AtRuleParser::parse_block for StyleRuleParser: a nested @media rule is
\* pushed to the rules, by the declaration list parser or by the rule list
\* parser.
NestAtRule ==
  /\ nest.stage \in {"declarations", "rules"}
  /\ ~NestAtEnd
  /\ NestItem.type = "Media"
  /\ nest' = [nest EXCEPT !.rules = Append(@, NestItem), !.pos = @ + 1]
  /\ UNCHANGED nonNestVars

\* The loop over the declaration list parser ends: at the end of the block,
\* or at an item it returns an error for (a style rule, or a declaration
\* after a rule: InvalidNesting), the input being reset to where the item
\* starts.
NestBreak ==
  /\ nest.stage = "declarations"
  /\ IF NestAtEnd THEN TRUE
     ELSE \/ NestItem.type = "Style"
          \/ NestItem.type = "Declaration" /\ nest.rules # <<>>
  /\ nest' = [nest EXCEPT !.stage = "rules"]
  /\ UNCHANGED nonNestVars

\* QualifiedRuleParser for StyleRuleParser: a nested style rule is pushed.
NestStyleRule ==
  /\ nest.stage = "rules"
  /\ ~NestAtEnd
  /\ NestItem.type = "Style"
  /\ nest' = [nest EXCEPT !.rules = Append(@, NestItem), !.pos = @ + 1]
  /\ UNCHANGED nonNestVars

\* The rule list parser returns an error for a declaration, and
\* parse_declarations_and_nested_rules returns it.
NestFail ==
  /\ nest.stage = "rules"
  /\ ~NestAtEnd
  /\ NestItem.type = "Declaration"
  /\ nest' = [nest EXCEPT !.stage = "done", !.result = "Err"]
  /\ UNCHANGED nonNestVars

\* parse_declarations_and_nested_rules returned Ok: parse_nested_at_rule
\* inserts the `&` rule in front of the rules and returns them.
NestReturn ==
  /\ nest.stage = "rules"
  /\ NestAtEnd
  /\ nest' = [nest EXCEPT
       !.stage = "done",
       !.result = "Ok",
       !.rules = IF HasDeclarations(nest.declarations, nest.important_declarations)
                 THEN <<NestingStyleRule(nest.declarations, nest.important_declarations)>> \o @
                 ELSE @]
  /\ UNCHANGED nonNestVars

NestInit ==
  /\ nest \in [input : NestedBlocks, pos : {0}, declarations : {<<>>},
               important_declarations : {<<>>}, rules : {<<>>},
               stage : {"declarations"}, result : {"None"}]
  /\ BundlerIdle
  /\ ParserIdle
  /\ SideIdle
  /\ PrinterIdle
  /\ ContextIdle
  /\ MinifyIdle
  /\ SmapIdle
  /\ TimeIdle

NestNext ==
  \/ NestDeclaration
  \/ NestAtRule
  \/ NestBreak
  \/ NestStyleRule
  \/ NestFail
  \/ NestReturn

NestSpec == NestInit /\ [][NestNext]_vars

(***************************************************************************)
(* C23: declarations written directly in a nested at-rule.                 *)
(***************************************************************************)
\* The names of the declarations of the block that are important, or that
\* are not, in source order.
RECURSIVE DirectDeclarations(_, _)
DirectDeclarations(input, important) ==
  IF input = <<>> THEN <<>>
  ELSE (IF input[1].type = "Declaration" /\ input[1].important = important
        THEN <<input[1].name>> ELSE <<>>)
       \o DirectDeclarations(Tail(input), important)

NestedRulesOf(input) == SelectSeq(input, LAMBDA it : it.type # "Declaration")

\* C23: when the block of an @media or @supports rule nested in a style rule
\* parses, every declaration written directly in it, important or not, is in
\* a style rule with the selector `&` that is the first rule of the nested
\* at-rule, and no `&` rule is there when the block has no declaration.
C23_DirectDeclarationsKept ==
  (nest.stage = "done" /\ nest.result = "Ok") =>
    LET normal == DirectDeclarations(nest.input, FALSE)
        important == DirectDeclarations(nest.input, TRUE)
    IN IF normal = <<>> /\ important = <<>>
       THEN nest.rules = NestedRulesOf(nest.input)
       ELSE nest.rules = <<NestingStyleRule(normal, important)>> \o NestedRulesOf(nest.input)

(***************************************************************************)
(* MediaRule::minify and MediaRule::to_css_with_context.  A rule list      *)
(* holds style rules and @media rules whose children are style rules; the  *)
(* list is minified rule by rule and then printed by a printer whose       *)
(* minify flag is set or not.  No @custom-media table is given.            *)
(***************************************************************************)
MaxMinifyRules == 2

\* MediaList::always_matches and MediaList::never_matches.
AlwaysMatches(query) ==
  query = <<>> \/ \A i \in DOMAIN query : query[i] = AllQ
NeverMatches(query) ==
  query # <<>> /\ \A i \in DOMAIN query : query[i] = NotAll

MinifyStyles == {StyleRule(f, Loc(0, 1)) : f \in {"a", "b"}}
MinifyQueries == {<<AllQ>>, <<NotAll>>, <<QPrint>>}
MinifyRules ==
  MinifyStyles \cup
  {MediaRule(q, ch, Loc(0, 1)) : q \in MinifyQueries, ch \in SeqsUpTo(MinifyStyles, 2)}
MinifyInputs == SeqsUpTo(MinifyRules, MaxMinifyRules)

\* MediaRule::minify: Ok(self.rules.0.is_empty() || self.query.never_matches()),
\* the rule being removed from its list when the value is true.
MediaRuleMinify(rule) == rule.rules = <<>> \/ NeverMatches(rule.query)

\* MediaQuery::to_css
QueryCss(query) ==
  IF query = <<AllQ>> THEN "all" ELSE IF query = <<NotAll>> THEN "not all" ELSE "print"

\* to_css_with_context of the rules of a list, one after the other, as the
\* sequence of what is written.
RECURSIVE RulesToCss(_, _)
RuleToCss(rule, dest_minify) ==
  IF rule.type = "Style" THEN <<rule.file>>
  ELSE IF dest_minify /\ AlwaysMatches(rule.query)
  THEN RulesToCss(rule.rules, dest_minify)
  ELSE <<"@media", QueryCss(rule.query), "{">> \o RulesToCss(rule.rules, dest_minify) \o <<"}">>
RulesToCss(rules, dest_minify) ==
  IF rules = <<>> THEN <<>>
  ELSE RuleToCss(rules[1], dest_minify) \o RulesToCss(Tail(rules), dest_minify)

\* CssRuleList::minify is at a rule: a style rule stays; an @media rule is
\* minified and stays unless its minify returned true.
MinifyRule ==
  /\ minify.stage = "minify"
  /\ minify.pos < Len(minify.rules)
  /\ LET rule == minify.rules[minify.pos + 1]
     IN minify' = [minify EXCEPT
          !.pos = @ + 1,
          !.kept = IF rule.type = "Media" /\ MediaRuleMinify(rule) THEN @ ELSE Append(@, rule)]
  /\ UNCHANGED nonMinifyVars

\* minify returns; the stylesheet is printed next.
MinifyReturn ==
  /\ minify.stage = "minify"
  /\ minify.pos = Len(minify.rules)
  /\ minify' = [minify EXCEPT !.stage = "print", !.pos = 0]
  /\ UNCHANGED nonMinifyVars

\* to_css_with_context of the next rule of the minified list.
PrintRule ==
  /\ minify.stage = "print"
  /\ minify.pos < Len(minify.kept)
  /\ minify' = [minify EXCEPT
       !.pos = @ + 1,
       !.dest = @ \o RuleToCss(minify.kept[minify.pos + 1], minify.dest_minify)]
  /\ UNCHANGED nonMinifyVars

PrintReturn ==
  /\ minify.stage = "print"
  /\ minify.pos = Len(minify.kept)
  /\ minify' = [minify EXCEPT !.stage = "done"]
  /\ UNCHANGED nonMinifyVars

MinifyInit ==
  /\ minify \in [rules : MinifyInputs, dest_minify : BOOLEAN, pos : {0}, kept : {<<>>},
                 dest : {<<>>}, stage : {"minify"}]
  /\ BundlerIdle
  /\ ParserIdle
  /\ SideIdle
  /\ PrinterIdle
  /\ ContextIdle
  /\ NestIdle
  /\ SmapIdle
  /\ TimeIdle

MinifyNext ==
  \/ MinifyRule
  \/ MinifyReturn
  \/ PrintRule
  \/ PrintReturn

MinifySpec == MinifyInit /\ [][MinifyNext]_vars

(***************************************************************************)
(* C24: @media rules that never or always match.                           *)
(***************************************************************************)
\* The rule list as the claim has it after minify: an @media rule that
\* never matches is gone with its children, the children of one that always
\* matches stand in its place (an @media rule left without children is
\* gone as well).
RECURSIVE Simplified(_)
Simplified(rules) ==
  IF rules = <<>> THEN <<>>
  ELSE LET rule == rules[1]
       IN (IF rule.type = "Style" THEN <<rule>>
           ELSE IF rule.rules = <<>> \/ NeverMatches(rule.query) THEN <<>>
           ELSE IF AlwaysMatches(rule.query) THEN rule.rules
           ELSE <<rule>>)
          \o Simplified(Tail(rules))

\* C24: after minify an @media rule whose query never matches is gone with
\* its children and an @media rule whose query always matches is replaced
\* by its children, and what is printed of the list shows that, whether the
\* printer minifies or not.
C24_MediaSimplified ==
  /\ minify.stage \in {"print", "done"} => minify.kept = Simplified(minify.rules)
  /\ minify.stage = "done" =>
       minify.dest = RulesToCss(Simplified(minify.rules), minify.dest_minify)

(***************************************************************************)
(* values/time.rs: Time, to_ms and the addition of two times.  A number is *)
(* kept in thousandths, as an integer, and the times are whole numbers of  *)
(* seconds and of half seconds in milliseconds, so that the products and   *)
(* quotients by 1000.0 are exact.                                          *)
(***************************************************************************)
MaxTime == 3

Number(n) == n * 1000
Times1000(x) == x * 1000
Over1000(x) == x \div 1000

Seconds(x) == [unit |-> "Seconds", value |-> x]
Milliseconds(x) == [unit |-> "Milliseconds", value |-> x]

Times ==
  {Seconds(Number(k)) : k \in 0 .. MaxTime}
    \cup {Milliseconds(Number(500 * k)) : k \in 0 .. MaxTime}

\* Time::to_ms
to_ms(t) == IF t.unit = "Seconds" THEN Times1000(t.value) ELSE t.value

\* impl Add<Time> for Time
add(self, other) ==
  CASE self.unit = "Seconds" /\ other.unit = "Seconds" ->
         Seconds(self.value + other.value)
    [] self.unit = "Milliseconds" /\ other.unit = "Milliseconds" ->
         Milliseconds(self.value + other.value)
    [] self.unit = "Seconds" /\ other.unit = "Milliseconds" ->
         Seconds(self.value + Over1000(other.value))
    [] self.unit = "Milliseconds" /\ other.unit = "Seconds" ->
         Seconds(self.value + Times1000(other.value))

\* a + b and b + a are computed.
AddTimes ==
  /\ time.stage = "ready"
  /\ time' = [time EXCEPT !.stage = "done",
                          !.sum = add(time.a, time.b),
                          !.swapped = add(time.b, time.a)]
  /\ UNCHANGED nonTimeVars

TimeInit ==
  /\ time \in [a : Times, b : Times, sum : {Seconds(0)}, swapped : {Seconds(0)},
               stage : {"ready"}]
  /\ BundlerIdle
  /\ ParserIdle
  /\ SideIdle
  /\ PrinterIdle
  /\ ContextIdle
  /\ NestIdle
  /\ MinifyIdle
  /\ SmapIdle

TimeNext == AddTimes

TimeSpec == TimeInit /\ [][TimeNext]_vars

(***************************************************************************)
(* C30: the duration of a sum of times.                                    *)
(***************************************************************************)
\* C30: for all times a and b, in seconds or in milliseconds,
\* to_ms(a + b) = to_ms(a) + to_ms(b), and a + b and b + a are the same
\* duration.
C30_AddPreservesDuration ==
  time.stage = "done" =>
    /\ to_ms(time.sum) = to_ms(time.a) + to_ms(time.b)
    /\ to_ms(time.sum) = to_ms(time.swapped)

(***************************************************************************)
(* The two filename tables of phase 1: Bundler::sources and the sources of *)
(* the source map, for an entry (file 0) that imports MaxImports files.    *)
(* A worker takes the lock of the table, pushes its file and releases the  *)
(* lock; it then takes the lock of the source map and adds its file.  The  *)
(* workers of the imports run once the entry has been parsed.              *)
(***************************************************************************)
MaxImports == 3

SmapFiles == 0 .. MaxImports

\* SourceMap::add_source: the index of the source, which is appended when
\* the map does not have it.
add_source(map_sources, filename) ==
  IF \E k \in DOMAIN map_sources : map_sources[k] = filename
  THEN [sources |-> map_sources,
        index |-> (CHOOSE k \in DOMAIN map_sources : map_sources[k] = filename) - 1]
  ELSE [sources |-> Append(map_sources, filename), index |-> Len(map_sources)]

\* The worker of file f can run: the entry at once, an import once
\* load_file has parsed the entry.
SmapRunning(f) == f = 0 \/ smap.pc[0] = "added"

\* { let mut sources = self.sources.lock().unwrap();
\*   opts.source_index = sources.len(); sources.push(filename) }
PushSource(f) ==
  /\ smap.stage = "load"
  /\ SmapRunning(f)
  /\ smap.pc[f] = "ready"
  /\ smap' = [smap EXCEPT !.pc[f] = "pushed",
                          !.source_index[f] = Len(smap.sources),
                          !.sources = Append(@, f)]
  /\ UNCHANGED nonSmapVars

\* { let mut source_map = source_map.lock().unwrap();
\*   let source_index = source_map.add_source(filename); .. }
AddSource(f) ==
  /\ smap.stage = "load"
  /\ smap.pc[f] = "pushed"
  /\ LET added == add_source(smap.map_sources, f)
     IN smap' = [smap EXCEPT !.pc[f] = "added",
                             !.map_index[f] = added.index,
                             !.map_sources = added.sources]
  /\ UNCHANGED nonSmapVars

SmapInit ==
  /\ smap = [stage |-> "load",
             pc |-> [f \in SmapFiles |-> "ready"],
             source_index |-> [f \in SmapFiles |-> 0],
             map_index |-> [f \in SmapFiles |-> 0],
             sources |-> <<>>,
             map_sources |-> <<>>]
  /\ BundlerIdle
  /\ ParserIdle
  /\ SideIdle
  /\ PrinterIdle
  /\ ContextIdle
  /\ NestIdle
  /\ MinifyIdle
  /\ TimeIdle

SmapNext ==
  \/ \E f \in SmapFiles : PushSource(f)
  \/ \E f \in SmapFiles : AddSource(f)

SmapSpec == SmapInit /\ [][SmapNext]_vars

(***************************************************************************)
(* C26: the source map and the filename table.                             *)
(***************************************************************************)
\* C26: under every interleaving of the workers, the index add_source gives
\* a file in the source map is the source_index the file has in the filename
\* table, and the two tables list the same files at the same places.
C26_SourceMapIndexAgrees ==
  /\ \A f \in SmapFiles : smap.pc[f] = "added" => smap.map_index[f] = smap.source_index[f]
  /\ (\A f \in SmapFiles : smap.pc[f] = "added") => smap.map_sources = smap.sources

(***************************************************************************)
(* C27: the layer of a file imported from within a layer.                  *)
(***************************************************************************)
\* The rules of the output, at the top level, that hold rules of file f.
RulesHolding(f) ==
  {k \in DOMAIN result.rules : f \in Range(StyleFiles(<<result.rules[k]>>))}

\* The layers (the names of the @layer blocks, None for an anonymous one)
\* the rules of file f are emitted in.
LayersOf(f) ==
  {result.rules[k].name : k \in {j \in RulesHolding(f) : result.rules[j].type = "LayerBlock"}}

\* Every rule of file f is emitted in a block of the layer `name`.
EmittedInLayer(f, name) ==
  /\ RulesHolding(f) # {}
  /\ \A k \in RulesHolding(f) :
       result.rules[k].type = "LayerBlock" /\ result.rules[k].name = name

\* C27: in a returned stylesheet, when the rules of a file are emitted in a
\* layer, named or anonymous, the rules of every file it imports with no
\* layer annotation are emitted in that layer too.
C27_LayerInherited ==
  phase = "done" =>
    \A i \in Imports :
      items[i].layer = NoLayer =>
        \A name \in LayersOf(items[i].src) : EmittedInLayer(Target(i), name)

(***************************************************************************)
(* C28: the condition of the entry.                                        *)
(***************************************************************************)
\* C28: for every import graph, the condition stored for the entry path
\* stays empty (no media list, no supports condition, no layer), and in a
\* returned stylesheet the rules of the entry are not wrapped in an @media,
\* @supports or @layer rule.
C28_EntryUnconditional ==
  /\ IsSome(loaded[Entry]) =>
       /\ Unwrap(loaded[Entry]).media = <<>>
       /\ IsNone(Unwrap(loaded[Entry]).supports)
       /\ Unwrap(loaded[Entry]).layer = NoLayer
  /\ phase = "done" =>
       \A k \in RulesHolding(Entry) : result.rules[k].type = "Style"

(***************************************************************************)
(* C25: the outcome of phase 1 under every interleaving.  The outcome of   *)
(* one schedule, the one in which each parallel loop runs its closures one *)
(* after the other in rule order, is computed from the input; bundling is  *)
(* deterministic exactly when every schedule ends with that outcome.       *)
(* Phase 2 is serial and is a function of what phase 1 leaves.             *)
(***************************************************************************)
\* The @import rules of file f in rule order.
RECURSIVE ChildSeqFrom(_, _)
ChildSeqFrom(f, i) ==
  IF i > Len(items) THEN <<>>
  ELSE (IF i \in Children(f) THEN <<i>> ELSE <<>>) \o ChildSeqFrom(f, i + 1)

\* load_file for the entry (i = 0) or the @import rule items[i], run to its
\* end before anything else runs.  s holds the `loaded` map, the rule each
\* file was first reached with, and "Ok" or how the bundle has failed.
RECURSIVE SerialLoad(_, _)
RECURSIVE SerialChildren(_, _)
SerialLoad(s, i) ==
  IF s.out # "Ok" THEN s
  ELSE LET parent == Unwrap(s.first[items[i].src])
           import == ParsedRule(i, 0)
       IN IF i > 0 /\ MediaAndFails(parent.media, import.media)
          THEN [s EXCEPT !.out = "UnsupportedMediaBooleanLogic"]
          ELSE IF i > 0 /\ ChildLayerClash(parent, import)
          THEN [s EXCEPT !.out = "UnsupportedLayerCombination"]
          ELSE LET rule == IF i = 0 THEN EntryRule ELSE ChildRule(parent, import)
                   file == IF i = 0 THEN Entry ELSE PathOf(items[i].src, items[i].url)
               IN IF IsSome(s.loaded[file])
                  THEN LET entry == Unwrap(s.loaded[file])
                       IN IF ImportConditionClash(entry, rule)
                          THEN [s EXCEPT !.out = "UnsupportedImportCondition"]
                          ELSE IF LayerClash(entry, rule)
                          THEN [s EXCEPT !.out = "UnsupportedLayerCombination"]
                          ELSE [s EXCEPT !.loaded[file] = Some(MergedEntry(entry, rule))]
                  ELSE LET s1 == [s EXCEPT !.loaded[file] = Some(rule),
                                           !.first[file] = Some(rule)]
                       IN IF status[file] = "unreadable"
                          THEN [s1 EXCEPT !.out = IF i = 0 THEN "panic" ELSE "IOError"]
                          ELSE IF status[file] = "unparsable"
                          THEN [s1 EXCEPT !.out = "ParserError"]
                          ELSE SerialChildren(s1, ChildSeqFrom(file, 1))
SerialChildren(s, seq) ==
  IF seq = <<>> THEN s ELSE SerialChildren(SerialLoad(s, seq[1]), Tail(seq))

SerialOutcome ==
  SerialLoad([loaded |-> [f \in Files |-> None], first |-> [f \in Files |-> None],
              out |-> "Ok"], 0)

\* Two stored conditions are the same condition: the same layer, and media
\* lists and supports conditions that hold in the same environments.
SameCondition(a, b) ==
  /\ IsSome(a) = IsSome(b)
  /\ IsSome(a) =>
       /\ Unwrap(a).layer = Unwrap(b).layer
       /\ \A e \in Envs : RuleHolds(Unwrap(a), e) = RuleHolds(Unwrap(b), e)

\* C25: for given source files and entry, every interleaving of the workers
\* of phase 1 ends with the same outcome: the same kind of error, or the
\* same effective condition for each file and the same layer in front of
\* the names of its @layer statements.
C25_Deterministic ==
  /\ phase = "failed" => result.error.kind = SerialOutcome.out
  /\ (\E i \in Tasks : pc[i] = "panic") => SerialOutcome.out = "panic"
  /\ (phase = "load" /\ pc[0] = "done") =>
       /\ SerialOutcome.out = "Ok"
       /\ \A f \in Files :
            /\ SameCondition(loaded[f], SerialOutcome.loaded[f])
            /\ IsSome(loaded[f]) =>
                 arg[Owner(f)][1].layer = Unwrap(SerialOutcome.first[f]).layer

(***************************************************************************)
(* C29: the cascade of a block before and after the handler, for the two   *)
(* text directions of a horizontal writing mode.  A Logical declaration    *)
(* sets its property to its ltr value where the direction is ltr and to    *)
(* its rtl value where it is rtl, and sets nothing in a direction it has   *)
(* no value for.                                                           *)
(***************************************************************************)
Directions == {"ltr", "rtl"}

\* The mapping of the logical sides in a horizontal writing mode.
DirectionMapping(dir) ==
  [block_start |-> "top", block_end |-> "bottom",
   inline_start |-> IF dir = "ltr" THEN "left" ELSE "right",
   inline_end |-> IF dir = "ltr" THEN "right" ELSE "left"]

ApplyDirected(st, d, dir) ==
  IF d.id = "logical"
  THEN LET value == IF dir = "ltr" THEN d.ltr ELSE d.rtl
       IN IF IsSome(value) THEN [st EXCEPT ![d.property_id] = Unwrap(value).val] ELSE st
  ELSE Apply(st, d, DirectionMapping(dir))

RECURSIVE CascadeDirected(_, _, _)
CascadeDirected(decls, st, dir) ==
  IF decls = <<>> THEN st
  ELSE CascadeDirected(Tail(decls), ApplyDirected(st, Head(decls), dir), dir)

=============================================================================
